---- MODULE Spec2Model ----
(***************************************************************************)
(* A model of the better-auth OPAQUE plugin: the four endpoints of         *)
(* src/src/server.ts (getRegisterChallenge, completeRegistration,          *)
(* getLoginChallenge, completeLogin) and the helpers of src/src/utils.ts   *)
(* (length validation, decoy record, padded and timestamped login-state    *)
(* envelope).  The OPAQUE engine (@serenity-kit/opaque), the symmetric     *)
(* cipher and the account/session store (better-auth's internalAdapter)    *)
(* are external collaborators: they are modelled by their contract at the  *)
(* places the handlers call them.                                          *)
(***************************************************************************)
EXTENDS Integers, Sequences, FiniteSets, TLC

(***************************************************************************)
(* Bounds of the model (not program constants).                            *)
(***************************************************************************)
\* createUser is enabled while fewer than MaxUsers users are stored.
MaxUsers == 2
\* createSession is enabled while fewer than MaxSessions sessions are stored.
MaxSessions == 3

\* Concurrent registration-complete requests in flight, and login flows
\* (a client holding the ticket of its login-challenge).
RegSlots == {"r1", "r2"}
LoginFlows == {"f1", "f2"}

Emails == {"a@x.test", "b@x.test"}
\* The password accounts are registered with, and another one.
RegistrationPasswords == {"pw1"}
Passwords == {"pw1", "wrongpw"}
\* The display name each email registers with: a short one, and one of 100
\* characters that JSON.stringify escapes to six bytes each (the schema
\* admits 1..100 characters).
NameOf(email) == IF email = "a@x.test" THEN "Al" ELSE "Esc100"

None == "none"

(***************************************************************************)
(* Program constants.                                                      *)
(***************************************************************************)
REGISTRATION_REQUEST_LENGTH == 32
REGISTRATION_RECORD_MIN_LENGTH == 170
REGISTRATION_RECORD_MAX_LENGTH == 200
LOGIN_REQUEST_LENGTH == 96
\* padToLength(..., 1024) in encryptServerLoginState
TARGET_PAYLOAD_LENGTH == 1024
\* 15 * 60 * 1000 in decryptServerLoginState
EXPIRY_MS == 15 * 60 * 1000

\* ctx.context.secret, the key of the envelope; OtherSecret is any other key.
Secret == "ctx.secret"
OtherSecret == "other.secret"
\* options.OPAQUE_SERVER_KEY
OPAQUE_SERVER_KEY == "serverSetup"

(***************************************************************************)
(* Responses.  An APIError carries a status and a message and no body      *)
(* field; a thrown Error that no handler catches reaches the framework,    *)
(* which answers 500.                                                      *)
(***************************************************************************)
\* The id a response carries when it names no user.
NoId == 0 - 1

APIError(status, message) ==
    [status |-> status, message |-> message, fields |-> {}, userId |-> NoId]

UncaughtError(message) == APIError("INTERNAL_SERVER_ERROR", message)

NoResponse == APIError("none", "")

(***************************************************************************)
(* base64url blobs.  A blob is known by its number of base64url characters;*)
(* base64UrlDecode pads to a multiple of four and calls atob, which throws *)
(* on a length that is 1 modulo 4 and otherwise yields floor(3n/4) bytes.  *)
(***************************************************************************)
DecodeError == 0 - 1

base64UrlDecode(chars) ==
    IF chars % 4 = 1 THEN DecodeError ELSE (chars * 3) \div 4

\* The DOMException of atob: it leaves the check as it is, not an APIError.
InvalidCharacterError == UncaughtError("InvalidCharacterError")

\* validateBase64Length that only refuses a blob that is too short.  C14
\* must fail against it.
validateBase64LengthAtLeast(chars, expectedLength, fieldName) ==
    LET bytes == base64UrlDecode(chars)
    IN  IF bytes = DecodeError THEN InvalidCharacterError
        ELSE IF bytes < expectedLength
        THEN APIError("BAD_REQUEST", "Invalid " \o fieldName)
        ELSE NoResponse

\* validateBase64LengthRange with both ends exclusive.  C15 must fail
\* against it.
validateBase64LengthRangeExclusive(chars, min, max, fieldName) ==
    LET bytes == base64UrlDecode(chars)
    IN  IF bytes = DecodeError THEN InvalidCharacterError
        ELSE IF bytes <= min \/ bytes >= max
        THEN APIError("BAD_REQUEST", "Invalid " \o fieldName)
        ELSE NoResponse

\* What the check throws: NoResponse when it returns, the error of atob when
\* the blob does not decode, APIError BAD_REQUEST on a wrong length.
validateBase64Length(chars, expectedLength, fieldName) ==
    LET bytes == base64UrlDecode(chars)
    IN  IF bytes = DecodeError THEN InvalidCharacterError
        ELSE IF bytes # expectedLength
        THEN APIError("BAD_REQUEST", "Invalid " \o fieldName)
        ELSE NoResponse

validateBase64LengthRange(chars, min, max, fieldName) ==
    LET bytes == base64UrlDecode(chars)
    IN  IF bytes = DecodeError THEN InvalidCharacterError
        ELSE IF bytes < min \/ bytes > max
        THEN APIError("BAD_REQUEST", "Invalid " \o fieldName)
        ELSE NoResponse

(***************************************************************************)
(* The OPAQUE engine, by its contract.  A RegistrationRecord is bound to   *)
(* the password, the user identifier and the server setup it was made      *)
(* with; a login against a record yields a session key only to a client    *)
(* that holds that password.                                               *)
(***************************************************************************)
\* client.startRegistration + server.createRegistrationResponse +
\* client.finishRegistration
RegistrationRecord(password, identifier, setup, chars) ==
    [pw |-> password, ident |-> identifier, setup |-> setup, chars |-> chars]

\* What the honest client library produces: 192 bytes, 256 characters.
HonestRecordChars == 4 * 64
\* The honest record, and one of 169 bytes (226 characters).
RecordChars == {HonestRecordChars, 226}

\* 32 bytes (honest) and 33 bytes.
RegistrationRequestChars == {43, 44}
\* 96 bytes (honest) and 97 bytes.
LoginRequestChars == {128, 130}

\* generateRandomString(24) password and generateRandomString(12) identifier
\* of the decoy, and its temporary server setup: no client holds them.
DummyPassword == "rnd24"
DummyIdentifier == "rnd12"
TempServerSetup == "tempServerSetup"

createDummyRegistrationRecord ==
    RegistrationRecord(DummyPassword, DummyIdentifier, TempServerSetup,
                       HonestRecordChars)

\* server.startLogin: the server login state remembers what the client's
\* proof must match.
startLogin(identifier, loginRequest, setup, record) ==
    LET st == [req |-> loginRequest, rec |-> record,
               ident |-> identifier, setup |-> setup]
    IN  [loginResponse |-> [for |-> st], serverLoginState |-> st]

\* client.finishLogin: a proof when the password opens the record's
\* envelope and the record belongs to this server and identifier, else
\* nothing (undefined).
clientFinishLogin(password, loginResponse) ==
    LET st == loginResponse.for
    IN  IF /\ st.rec.pw = password
           /\ st.req.pw = password
           /\ st.rec.setup = st.setup
           /\ st.rec.ident = st.ident
        THEN [defined |-> TRUE, forged |-> FALSE, mac |-> st]
        ELSE [defined |-> FALSE, forged |-> FALSE, mac |-> st]

\* A finishLoginRequest made without the password: it matches no state.
GarbageProof(loginResponse) ==
    [defined |-> TRUE, forged |-> TRUE, mac |-> loginResponse.for]

\* server.finishLogin: the session key, or nothing.
\* finishLogin without the comparison of the proof: any proof the client
\* sends yields a session key.  C1 must fail against it.
finishLoginUnchecked(loginResult, serverLoginState) ==
    IF loginResult.defined THEN "sessionKey" ELSE None

finishLogin(loginResult, serverLoginState) ==
    IF /\ loginResult.defined
       /\ ~loginResult.forged
       /\ loginResult.mac = serverLoginState
    THEN "sessionKey"
    ELSE None

(***************************************************************************)
(* The login-state envelope (utils.ts).  A JSON text is known by the value *)
(* it parses to and by its length in bytes.                                *)
(***************************************************************************)
\* userToEncrypt is never null in getLoginChallenge; an envelope of the
\* earlier format may carry "user": null.
\* createdAt stands for the store's timestamps createdAt and updatedAt, by
\* their representation: "absent", "Date" (as the store returns them) or
\* "ISOString" (as JSON.parse returns what JSON.stringify made of a Date).
NullUser ==
    [id |-> NoId, email |-> "", name |-> "", extra |-> FALSE,
     createdAt |-> "absent"]

\* generateRandomString(12): an id no stored user has.
RandomId == 0
\* generateRandomString(24)
RandomName == "rnd24"

EmailBytes(email) ==
    CASE email = "a@x.test" -> 8
      [] email = "b@x.test" -> 8
      [] OTHER -> 0

NameBytes(name) ==
    CASE name = "Al" -> 2
      [] name = "Esc100" -> 100 * 6
      [] name = "Fits1024" -> 529
      [] name = "Over1025" -> 530
      [] name = RandomName -> 24
      [] OTHER -> 0

\* {"id":"..","email":"..","name":".."}; a stored user (32-character id)
\* also carries emailVerified, image, createdAt and updatedAt.
UserJsonBytes(user) ==
    IF user = NullUser
    THEN 4
    ELSE 7 + (IF user.extra THEN 32 ELSE 12)
         + 11 + EmailBytes(user.email)
         + 10 + NameBytes(user.name) + 2
         + (IF user.extra THEN 22 + 13 + 2 * 39 ELSE 0)

\* The server login state of the engine: 192 bytes in base64url.
ServerLoginStateChars == 4 * 64

\* issuedAt of a payload sealed by the earlier format, which had none.
NoIssuedAt == 0 - 1

\* Date.prototype.toJSON, applied by JSON.stringify to the values of user:
\* a Date is written as its ISO string, and strings stay strings.
toJSON(user) ==
    IF user.createdAt = "Date"
    THEN [user EXCEPT !.createdAt = "ISOString"]
    ELSE user

\* JSON.stringify({ serverLoginState, user, issuedAt }): the text, known by
\* the value JSON.parse reads from it (json) and by its UTF-8 length.
stringify(serverLoginState, user, issuedAt) ==
    [json |-> [serverLoginState |-> serverLoginState, user |-> toJSON(user),
               issuedAt |-> issuedAt],
     parses |-> TRUE,
     bytes |-> 21 + ServerLoginStateChars + 9 + UserJsonBytes(user)
               + (IF issuedAt = NoIssuedAt THEN 0 ELSE 12 + 13) + 1]

\* padToLength that checks the size and adds no padding.  C12 must fail
\* against it.
padToLengthUnpadded(input, targetLength) ==
    [thrown |-> input.bytes > targetLength, text |-> input]

\* padToLength with the comparison of line 82 written ">=": a payload of
\* exactly the target length is refused.  C13 must fail against it.
padToLengthStrict(input, targetLength) ==
    LET currentLength == input.bytes
    IN  IF currentLength >= targetLength
        THEN [thrown |-> TRUE, text |-> input]
        ELSE [thrown |-> FALSE,
              text |-> [input EXCEPT !.bytes = currentLength
                                        + (targetLength - currentLength)]]

\* thrown: Error("Payload size exceeds target padding length.")
padToLength(input, targetLength) ==
    LET currentLength == input.bytes
    IN  IF currentLength > targetLength
        THEN [thrown |-> TRUE, text |-> input]
        ELSE [thrown |-> FALSE,
              text |-> [input EXCEPT !.bytes = currentLength
                                        + (targetLength - currentLength)]]

\* symmetricEncrypt: an authenticated ciphertext under key.
symmetricEncrypt(data, key) == [key |-> key, intact |-> TRUE, data |-> data]

\* The hex length of a ciphertext: nonce and tag added to the plaintext.
CipherChars(envelope) == 2 * (24 + envelope.data.bytes + 16)

encryptServerLoginState(serverLoginState, secret, user, dateNow) ==
    LET padded == padToLength(stringify(serverLoginState, user, dateNow),
                              TARGET_PAYLOAD_LENGTH)
    IN  [thrown |-> padded.thrown,
         envelope |-> symmetricEncrypt(padded.text, secret)]

\* symmetricDecrypt throws on a wrong key or a modified ciphertext.
symmetricDecryptFails(envelope, key) ==
    envelope.key # key \/ ~envelope.intact

\* decryptServerLoginState with the comparison of line 126 written "<=":
\* a ticket of exactly 15 minutes is refused.  C10 must fail against it.
decryptServerLoginStateInclusive(encryptedState, secret, dateNow) ==
    LET data == encryptedState.data.json
    IN  [data |-> data,
         outcome |->
            IF symmetricDecryptFails(encryptedState, secret) THEN "decrypt"
            ELSE IF ~encryptedState.data.parses THEN "parse"
            ELSE IF /\ data.issuedAt # NoIssuedAt
                    /\ data.issuedAt + EXPIRY_MS <= dateNow THEN "expired"
            ELSE "ok"]

\* outcome: "ok", or what was thrown: "decrypt" (symmetricDecrypt),
\* "parse" (JSON.parse), "expired" (APIError BAD_REQUEST).
\* undefined + 900000 is NaN, and NaN < Date.now() is false.
decryptServerLoginState(encryptedState, secret, dateNow) ==
    LET data == encryptedState.data.json
    IN  [data |-> data,
         outcome |->
            IF symmetricDecryptFails(encryptedState, secret) THEN "decrypt"
            ELSE IF ~encryptedState.data.parses THEN "parse"
            ELSE IF /\ data.issuedAt # NoIssuedAt
                    /\ data.issuedAt + EXPIRY_MS < dateNow THEN "expired"
            ELSE "ok"]

(***************************************************************************)
(* State.                                                                  *)
(***************************************************************************)
VARIABLES
    users,      \* the account store's user table, in creation order
    accounts,   \* the account store's account table, in creation order
    sessions,   \* the sessions createSession made, in creation order
    now,        \* Date.now(), in milliseconds since the plugin started
    reg,        \* the registration-complete requests in flight, per slot
    login,      \* the login flows, per client
    probe       \* a direct call of the envelope functions, as the tests make

vars == <<users, accounts, sessions, now, reg, login, probe>>

\* The instants the clock is sampled at: the start, one second before the
\* expiry of a ticket sealed at the start, its expiry, and just after.
TimePoints == {0, EXPIRY_MS - 1000, EXPIRY_MS, EXPIRY_MS + 1}

NoRecord == RegistrationRecord("", "", "", 0)

IdleReg ==
    [pc |-> "idle", email |-> "", name |-> "", registrationRecord |-> NoRecord,
     existingUser |-> FALSE, userId |-> NoId, response |-> NoResponse]

NoLoginRequest == [pw |-> "", chars |-> 0]
NoState == [req |-> NoLoginRequest, rec |-> NoRecord, ident |-> "", setup |-> ""]
NoEnvelope ==
    [key |-> "", intact |-> FALSE,
     data |-> [json |-> [serverLoginState |-> NoState, user |-> NullUser,
                         issuedAt |-> NoIssuedAt],
               parses |-> FALSE, bytes |-> 0]]

IdleLogin ==
    [pc |-> "idle", email |-> "", password |-> "",
     loginRequest |-> NoLoginRequest, user |-> NullUser,
     challenge |-> [for |-> NoState], state |-> NoEnvelope,
     opened |-> "", response |-> NoResponse, won |-> FALSE]

\* let OPAQUE_SERVER_KEY: string, before any assignment
Undefined == "undefined"
\* server.createSetup()
createSetup == "createSetup"

\* Whether the engine's ready promise has resolved, whether the callback of
\* ready.then and init have run, and what the last request passed to the
\* engine.
NoPlugin ==
    [supplied |-> FALSE, awaitsInit |-> FALSE, ready |-> FALSE,
     initDone |-> FALSE, serverKey |-> Undefined, requests |-> 0,
     endpoint |-> "", usedKey |-> Undefined, usedRecord |-> NoRecord,
     engineCalled |-> FALSE]

\* The result of a $fetch: error and data exclude each other; the data of a
\* challenge endpoint may lack its challenge.
NoFetch ==
    [error |-> FALSE, data |-> FALSE, challenge |-> FALSE,
     loginResponse |-> [for |-> NoState], state |-> ""]

\* A call of signUp.opaque or signIn.opaque: where it stands, the requests
\* it has sent and the result it returned.
NoClient ==
    [pc |-> "idle", action |-> "", email |-> "", password |-> "",
     challengeCalls |-> 0, completeCalls |-> 0, challengeResponse |-> NoFetch,
     sentState |-> "", sentProof |-> FALSE, returned |-> ""]

\* No direct call of the envelope functions has been made.
NoOpened ==
    [data |-> NoEnvelope.data.json, outcome |-> "", key |-> "", at |-> 0]

NoProbe ==
    [pc |-> "idle", serverLoginState |-> NoState, user |-> NullUser,
     payloadBytes |-> 0, error |-> NoResponse, envelope |-> NoEnvelope,
     opened |-> NoOpened, honest |-> FALSE, response |-> NoResponse,
     blob |-> 0, fieldName |-> "", email |-> "", client |-> NoClient,
     plugin |-> NoPlugin]

\* A slot whose request has ended keeps the email and the response.
Done(email, response) ==
    [IdleReg EXCEPT !.pc = "done", !.email = email, !.response = response]

Init ==
    /\ users = <<>>
    /\ accounts = <<>>
    /\ sessions = <<>>
    /\ now = 0
    /\ reg = [r \in RegSlots |-> IdleReg]
    /\ login = [f \in LoginFlows |-> IdleLogin]
    /\ probe = NoProbe

(***************************************************************************)
(* The account store (internalAdapter), by its contract.                   *)
(***************************************************************************)
Indexes(seq) == 1..Len(seq)

\* findUserByEmail: the first user with that email, or NullUser (null).
findUserByEmail(email) ==
    LET hits == {i \in Indexes(users) : users[i].email = email}
    IN  IF hits = {} THEN NullUser
        ELSE users[CHOOSE i \in hits : \A j \in hits : i <= j]

\* createUser: a new row with a fresh id; the store adds its own fields.
createUser(email, name) ==
    [id |-> Len(users) + 1, email |-> email, name |-> name, extra |-> TRUE,
     createdAt |-> "Date"]

NoAccount == [userId |-> NoId, providerId |-> "", registrationRecord |-> NoRecord]

\* findOpaqueAccount: findAccounts(userId).find(providerId === "opaque")
findOpaqueAccount(userId) ==
    LET hits == {i \in Indexes(accounts) :
                    /\ accounts[i].userId = userId
                    /\ accounts[i].providerId = "opaque"}
    IN  IF hits = {} THEN NoAccount
        ELSE accounts[CHOOSE i \in hits : \A j \in hits : i <= j]

(***************************************************************************)
(* getRegisterChallenge: /sign-up/opaque/challenge.  The handler keeps     *)
(* nothing; the slot holds what the client keeps for the complete step.    *)
(***************************************************************************)
ChallengeResponse ==
    [status |-> "OK", message |-> "", fields |-> {"challenge"}, userId |-> NoId]

\* A registration challenge that looks the email up and refuses a registered
\* one.  C26 must fail against it.
GetRegisterChallengeChecksUser(r, email, name, password, chars) ==
    /\ reg[r].pc \in {"idle", "done"}
    /\ r # "r1" => reg["r1"].pc \notin {"idle", "done"}
    /\ IF validateBase64Length(chars, REGISTRATION_REQUEST_LENGTH,
                               "registration request") # NoResponse
       THEN reg' = [reg EXCEPT ![r] =
                Done(email, validateBase64Length(chars,
                                REGISTRATION_REQUEST_LENGTH,
                                "registration request"))]
       ELSE IF findUserByEmail(email) # NullUser
       THEN reg' = [reg EXCEPT ![r] =
                Done(email, APIError("CONFLICT",
                                     "User with this email already exists"))]
       ELSE reg' = [reg EXCEPT ![r] =
                [IdleReg EXCEPT !.pc = "challenged", !.email = email,
                    !.name = name,
                    !.registrationRecord =
                        RegistrationRecord(password, email, OPAQUE_SERVER_KEY,
                                           HonestRecordChars),
                    !.response = ChallengeResponse]]
    /\ UNCHANGED <<probe, users, accounts, sessions, now, login>>

GetRegisterChallenge(r, email, name, password, chars) ==
    /\ reg[r].pc \in {"idle", "done"}
    /\ r # "r1" => reg["r1"].pc \notin {"idle", "done"}
    /\ IF validateBase64Length(chars, REGISTRATION_REQUEST_LENGTH,
                               "registration request") # NoResponse
       THEN reg' = [reg EXCEPT ![r] =
                Done(email, validateBase64Length(chars,
                                REGISTRATION_REQUEST_LENGTH,
                                "registration request"))]
       ELSE \* client.finishRegistration with the challenge
            reg' = [reg EXCEPT ![r] =
                [IdleReg EXCEPT !.pc = "challenged", !.email = email,
                    !.name = name,
                    !.registrationRecord =
                        RegistrationRecord(password, email, OPAQUE_SERVER_KEY,
                                           HonestRecordChars),
                    !.response = ChallengeResponse]]
    /\ UNCHANGED <<probe, users, accounts, sessions, now, login>>

(***************************************************************************)
(* completeRegistration: /sign-up/opaque/complete.  The handler yields at  *)
(* each await of a store call, so requests interleave between them.        *)
(***************************************************************************)
\* The start of completeRegistration with findUserByEmail awaited before
\* the length check.  C16 must fail against it.
CompleteRegistrationStartLookupFirst(r, chars) ==
    /\ reg[r].pc = "challenged"
    /\ LET record == [reg[r].registrationRecord EXCEPT !.chars = chars]
           existingUser == findUserByEmail(reg[r].email) # NullUser
           thrown == validateBase64LengthRange(chars,
                        REGISTRATION_RECORD_MIN_LENGTH,
                        REGISTRATION_RECORD_MAX_LENGTH,
                        "registration record")
       IN  IF thrown # NoResponse
           THEN reg' = [reg EXCEPT ![r] =
                    [Done(reg[r].email, thrown)
                        EXCEPT !.existingUser = existingUser]]
           ELSE reg' = [reg EXCEPT ![r].pc = "lookedUp",
                    ![r].registrationRecord = record,
                    ![r].response = NoResponse,
                    ![r].existingUser = existingUser]
    /\ UNCHANGED <<probe, users, accounts, sessions, now, login>>

\* Up to the first await: the length check, then findUserByEmail.
CompleteRegistrationStart(r, chars) ==
    /\ reg[r].pc = "challenged"
    /\ LET record == [reg[r].registrationRecord EXCEPT !.chars = chars]
           thrown == validateBase64LengthRange(chars,
                        REGISTRATION_RECORD_MIN_LENGTH,
                        REGISTRATION_RECORD_MAX_LENGTH,
                        "registration record")
       IN  IF thrown # NoResponse
           THEN reg' = [reg EXCEPT ![r] = Done(reg[r].email, thrown)]
           ELSE reg' = [reg EXCEPT ![r].pc = "lookedUp",
                    ![r].registrationRecord = record,
                    ![r].response = NoResponse,
                    ![r].existingUser =
                        (findUserByEmail(reg[r].email) # NullUser)]
    /\ UNCHANGED <<probe, users, accounts, sessions, now, login>>

\* An upsert in place of the refusal: the record of the repeated registration
\* replaces the stored one.  C24 must fail against it.
CompleteRegistrationConflictOverwrites(r) ==
    /\ reg[r].pc = "lookedUp"
    /\ reg[r].existingUser
    /\ accounts' = [i \in DOMAIN accounts |->
            IF accounts[i].userId = findUserByEmail(reg[r].email).id
            THEN [accounts[i] EXCEPT
                    !.registrationRecord = reg[r].registrationRecord]
            ELSE accounts[i]]
    /\ reg' = [reg EXCEPT ![r] = Done(reg[r].email,
                APIError("CONFLICT", "User with this email already exists"))]
    /\ UNCHANGED <<probe, users, sessions, now, login>>

\* The existing-user branch without its throw: the handler goes on to the
\* session of lines 205-209 for the user it found.  C6 must fail against it.
CompleteRegistrationConflictFallsThrough(r) ==
    /\ reg[r].pc = "lookedUp"
    /\ reg[r].existingUser
    /\ Len(sessions) < MaxSessions
    /\ sessions' = Append(sessions,
            [userId |-> findUserByEmail(reg[r].email).id,
             dontRememberMe |-> FALSE, by |-> "completeRegistration"])
    /\ reg' = [reg EXCEPT ![r] = Done(reg[r].email,
            [status |-> "CREATED",
             message |-> "User registered successfully",
             fields |-> {"success", "message", "token", "user"},
             userId |-> findUserByEmail(reg[r].email).id])]
    /\ UNCHANGED <<probe, users, accounts, now, login>>

\* The refusal held back until another registration has ended: a handler
\* that waits for another request.  C37 must fail against it.
CompleteRegistrationConflictWaits(r) ==
    /\ reg[r].pc = "lookedUp"
    /\ reg[r].existingUser
    /\ \E other \in RegSlots \ {r} : reg[other].pc = "done"
    /\ reg' = [reg EXCEPT ![r] = Done(reg[r].email,
                APIError("CONFLICT", "User with this email already exists"))]
    /\ UNCHANGED <<probe, users, accounts, sessions, now, login>>

\* if (existingUser) throw CONFLICT
CompleteRegistrationConflict(r) ==
    /\ reg[r].pc = "lookedUp"
    /\ reg[r].existingUser
    /\ reg' = [reg EXCEPT ![r] = Done(reg[r].email,
                APIError("CONFLICT", "User with this email already exists"))]
    /\ UNCHANGED <<probe, users, accounts, sessions, now, login>>

\* createUser
CompleteRegistrationCreateUser(r) ==
    /\ reg[r].pc = "lookedUp"
    /\ ~reg[r].existingUser
    /\ Len(users) < MaxUsers
    /\ LET user == createUser(reg[r].email, reg[r].name)
       IN  /\ users' = Append(users, user)
           /\ reg' = [reg EXCEPT ![r].pc = "userCreated", ![r].userId = user.id]
    /\ UNCHANGED <<probe, accounts, sessions, now, login>>

\* createAccount with the provider of the password plugin.  C23 must fail
\* against it.
CompleteRegistrationCreateAccountAsCredential(r) ==
    /\ reg[r].pc = "userCreated"
    /\ accounts' = Append(accounts,
            [userId |-> reg[r].userId, providerId |-> "credential",
             registrationRecord |-> reg[r].registrationRecord])
    /\ reg' = [reg EXCEPT ![r].pc = "accountCreated"]
    /\ UNCHANGED <<probe, users, sessions, now, login>>

\* generateId, then createAccount
CompleteRegistrationCreateAccount(r) ==
    /\ reg[r].pc = "userCreated"
    /\ accounts' = Append(accounts,
            [userId |-> reg[r].userId, providerId |-> "opaque",
             registrationRecord |-> reg[r].registrationRecord])
    /\ reg' = [reg EXCEPT ![r].pc = "accountCreated"]
    /\ UNCHANGED <<probe, users, sessions, now, login>>

\* generateId returns nothing (Error thrown), or createAccount throws.
CompleteRegistrationAccountFails(r) ==
    /\ reg[r].pc = "userCreated"
    /\ \/ reg' = [reg EXCEPT ![r] = Done(reg[r].email,
                UncaughtError("Failed to generate account ID"))]
       \/ reg' = [reg EXCEPT ![r] = Done(reg[r].email,
                UncaughtError("createAccount failed"))]
    /\ UNCHANGED <<probe, users, accounts, sessions, now, login>>

\* createSession(user.id, ctx, false), setSessionCookie, the 201 response.
CompleteRegistrationCreateSession(r) ==
    /\ reg[r].pc = "accountCreated"
    /\ Len(sessions) < MaxSessions
    /\ sessions' = Append(sessions,
            [userId |-> reg[r].userId, dontRememberMe |-> FALSE,
             by |-> "completeRegistration"])
    /\ reg' = [reg EXCEPT ![r] = Done(reg[r].email,
            [status |-> "CREATED",
             message |-> "User registered successfully",
             fields |-> {"success", "message", "token", "user"},
             userId |-> reg[r].userId])]
    /\ UNCHANGED <<probe, users, accounts, now, login>>

\* createSession returns nothing: if (!session) throw INTERNAL_SERVER_ERROR
CompleteRegistrationSessionFails(r) ==
    /\ reg[r].pc = "accountCreated"
    /\ reg' = [reg EXCEPT ![r] = Done(reg[r].email,
            APIError("INTERNAL_SERVER_ERROR", "Failed to create session"))]
    /\ UNCHANGED <<probe, users, accounts, sessions, now, login>>

(***************************************************************************)
(* getLoginChallenge: /sign-in/opaque/challenge.                           *)
(***************************************************************************)
\* client.startLogin({ password })
clientStartLogin(password, chars) == [pw |-> password, chars |-> chars]

\* From server.startLogin to the response; the flow then holds what the
\* client keeps: its password, the challenge and the sealed state.
IssueChallenge(email, loginRequest, userToEncrypt, registrationRecord) ==
    LET started == startLogin(email, loginRequest, OPAQUE_SERVER_KEY,
                              registrationRecord)
        sealed == encryptServerLoginState(started.serverLoginState, Secret,
                                          userToEncrypt, now)
    IN  IF sealed.thrown
        THEN [IdleLogin EXCEPT !.email = email, !.user = userToEncrypt,
                !.response =
                UncaughtError("Payload size exceeds target padding length.")]
        ELSE [IdleLogin EXCEPT !.pc = "challenged", !.email = email,
                !.password = loginRequest.pw, !.loginRequest = loginRequest,
                !.challenge = started.loginResponse,
                !.state = sealed.envelope,
                !.response = [status |-> "OK", message |-> "",
                              fields |-> {"challenge", "state"},
                              userId |-> NoId]]

\* Up to the await of findAccounts; the branch without a user runs to the
\* response (the decoy generator touches no shared state).
GetLoginChallengeStart(f, email, password, chars) ==
    /\ login[f].pc \in {"idle", "challenged"}
    /\ f # "f1" => login["f1"].pc # "idle"
    /\ LET loginRequest == clientStartLogin(password, chars)
           user == findUserByEmail(email)
           thrown == validateBase64Length(chars, LOGIN_REQUEST_LENGTH,
                                          "login request")
       IN  IF thrown # NoResponse
           THEN login' = [login EXCEPT ![f] =
                    [IdleLogin EXCEPT !.response = thrown]]
           ELSE IF user = NullUser
           THEN login' = [login EXCEPT ![f] =
                    IssueChallenge(email, loginRequest,
                        [id |-> RandomId, email |-> email,
                         name |-> RandomName, extra |-> FALSE,
                         createdAt |-> "absent"],
                        createDummyRegistrationRecord)]
           ELSE login' = [login EXCEPT ![f] =
                    [IdleLogin EXCEPT !.pc = "found", !.email = email,
                        !.password = password, !.loginRequest = loginRequest,
                        !.user = user]]
    /\ UNCHANGED <<probe, users, accounts, sessions, now, reg>>

\* The found-user branch with the decoy record for every user.  C22 must
\* fail against it.
GetLoginChallengeFinishDecoyOnly(f) ==
    /\ login[f].pc = "found"
    /\ login' = [login EXCEPT ![f] =
            IssueChallenge(login[f].email, login[f].loginRequest,
                           login[f].user, createDummyRegistrationRecord)]
    /\ UNCHANGED <<probe, users, accounts, sessions, now, reg>>

\* opaqueAccount?.registrationRecord || (await createDummyRegistrationRecord())
\* A login challenge that saves the decoy it generated for a user without a
\* credential as that user's account.  C27 must fail against it.
GetLoginChallengeFinishStoresDecoy(f) ==
    /\ login[f].pc = "found"
    /\ LET opaqueAccount == findOpaqueAccount(login[f].user.id)
           registrationRecord ==
               IF opaqueAccount = NoAccount
               THEN createDummyRegistrationRecord
               ELSE opaqueAccount.registrationRecord
       IN  /\ login' = [login EXCEPT ![f] =
                IssueChallenge(login[f].email, login[f].loginRequest,
                               login[f].user, registrationRecord)]
           /\ accounts' =
                IF opaqueAccount = NoAccount
                THEN Append(accounts,
                        [userId |-> login[f].user.id, providerId |-> "opaque",
                         registrationRecord |-> registrationRecord])
                ELSE accounts
    /\ UNCHANGED <<probe, users, sessions, now, reg>>

GetLoginChallengeFinish(f) ==
    /\ login[f].pc = "found"
    /\ LET opaqueAccount == findOpaqueAccount(login[f].user.id)
           registrationRecord ==
               IF opaqueAccount = NoAccount
               THEN createDummyRegistrationRecord
               ELSE opaqueAccount.registrationRecord
       IN  login' = [login EXCEPT ![f] =
                IssueChallenge(login[f].email, login[f].loginRequest,
                               login[f].user, registrationRecord)]
    /\ UNCHANGED <<probe, users, accounts, sessions, now, reg>>

(***************************************************************************)
(* completeLogin: /sign-in/opaque/complete.                                *)
(***************************************************************************)
\* What a client can present as encryptedServerState: the ticket it was
\* given, that ticket modified, a ciphertext under another key, and a
\* ciphertext under the secret that is no JSON text.
EnvelopeKinds == {"ticket", "tampered", "otherKey", "notJson"}

Presented(ticket, kind) ==
    CASE kind = "ticket" -> ticket
      [] kind = "tampered" -> [ticket EXCEPT !.intact = FALSE]
      [] kind = "otherKey" -> [ticket EXCEPT !.key = OtherSecret]
      [] kind = "notJson" -> [ticket EXCEPT !.data.parses = FALSE]

\* createSession called with a constant false.  C18 must fail against it.
RememberPolicyNever(dontRememberMe) == FALSE

\* dontRememberMe || false, for the optional flag
RememberPolicy(dontRememberMe) == dontRememberMe = "true"

LoginSuccess(userId) ==
    [status |-> "OK", message |-> "", fields |-> {"token", "success", "user"},
     userId |-> userId]

\* completeLogin without the check of lines 328-332: a null user goes on to
\* createSession.  C17 must fail against it.
completeLoginOutcomeNoUserCheck(encryptedServerState, loginResult) ==
    LET opened == decryptServerLoginState(encryptedServerState, Secret, now)
        sessionKey == finishLogin(loginResult, opened.data.serverLoginState)
    IN  IF opened.outcome = "decrypt"
        THEN UncaughtError("symmetricDecrypt")
        ELSE IF opened.outcome = "parse"
        THEN UncaughtError("JSON.parse")
        ELSE IF opened.outcome = "expired"
        THEN APIError("BAD_REQUEST", "Login state has expired")
        ELSE IF sessionKey = None
        THEN APIError("UNAUTHORIZED", "Login failed")
        ELSE LoginSuccess(opened.data.user.id)

\* The handler up to createSession: the error it throws, or the response it
\* gives once createSession has returned a session.
completeLoginOutcome(encryptedServerState, loginResult) ==
    LET opened == decryptServerLoginState(encryptedServerState, Secret, now)
        sessionKey == finishLogin(loginResult, opened.data.serverLoginState)
    IN  IF opened.outcome = "decrypt"
        THEN UncaughtError("symmetricDecrypt")
        ELSE IF opened.outcome = "parse"
        THEN UncaughtError("JSON.parse")
        ELSE IF opened.outcome = "expired"
        THEN APIError("BAD_REQUEST", "Login state has expired")
        ELSE IF sessionKey = None
        THEN APIError("UNAUTHORIZED", "Login failed")
        ELSE IF opened.data.user = NullUser
        THEN APIError("UNAUTHORIZED", "Login failed")
        ELSE LoginSuccess(opened.data.user.id)

\* The request a flow sends, and what the handler does with it before
\* createSession.
LoginResult(f, honest) ==
    IF honest THEN clientFinishLogin(login[f].password, login[f].challenge)
    ELSE GarbageProof(login[f].challenge)

CompleteLoginRequest(f, kind, honest) ==
    /\ login[f].pc = "challenged"
    /\ honest => LoginResult(f, honest).defined

\* A completeLogin that takes the login state from one slot kept by the
\* server, which the latest challenge of any flow overwrites, in place of
\* the envelope of the request.  C33 must fail against it.
OutcomeOfSharedState(f, kind, honest) ==
    LET latest == IF \E g \in LoginFlows \ {f} : login[g].pc = "challenged"
                  THEN CHOOSE g \in LoginFlows \ {f} :
                            login[g].pc = "challenged"
                  ELSE f
    IN  completeLoginOutcome(Presented(login[latest].state, kind),
                             LoginResult(f, honest))

OutcomeOf(f, kind, honest) ==
    completeLoginOutcome(Presented(login[f].state, kind),
                         LoginResult(f, honest))

OpenedOf(f, kind) ==
    decryptServerLoginState(Presented(login[f].state, kind), Secret,
                            now).outcome

\* A completeLogin that creates the session before it looks at the result of
\* finishLogin, and then refuses.  C25 must fail against it.
CompleteLoginRejectedAfterSession(f, kind, honest) ==
    /\ CompleteLoginRequest(f, kind, honest)
    /\ OutcomeOf(f, kind, honest).status # "OK"
    /\ Len(sessions) < MaxSessions
    /\ sessions' = Append(sessions,
            [userId |-> login[f].state.data.json.user.id,
             dontRememberMe |-> FALSE,
             by |-> "completeLogin"])
    /\ login' = [login EXCEPT ![f].opened = OpenedOf(f, kind),
                              ![f].response = OutcomeOf(f, kind, honest)]
    /\ UNCHANGED <<probe, users, accounts, now, reg>>

\* The handler throws before createSession.
CompleteLoginRejected(f, kind, honest) ==
    /\ CompleteLoginRequest(f, kind, honest)
    /\ OutcomeOf(f, kind, honest).status # "OK"
    /\ login' = [login EXCEPT ![f].opened = OpenedOf(f, kind),
                              ![f].response = OutcomeOf(f, kind, honest)]
    /\ UNCHANGED <<probe, users, accounts, sessions, now, reg>>

\* createSession(user.id, ctx, dontRememberMe || false), setSessionCookie,
\* the response with the token.
CompleteLogin(f, kind, honest, dontRememberMe) ==
    /\ CompleteLoginRequest(f, kind, honest)
    /\ OutcomeOf(f, kind, honest).status = "OK"
    /\ Len(sessions) < MaxSessions
    /\ sessions' = Append(sessions,
            [userId |-> OutcomeOf(f, kind, honest).userId,
             dontRememberMe |-> RememberPolicy(dontRememberMe),
             by |-> "completeLogin"])
    /\ login' = [login EXCEPT ![f].opened = OpenedOf(f, kind),
                              ![f].response = OutcomeOf(f, kind, honest),
                              ![f].won = TRUE]
    /\ UNCHANGED <<probe, users, accounts, now, reg>>

\* createSession returns nothing: if (!session) throw INTERNAL_SERVER_ERROR
CompleteLoginSessionFails(f, kind, honest) ==
    /\ CompleteLoginRequest(f, kind, honest)
    /\ OutcomeOf(f, kind, honest).status = "OK"
    /\ login' = [login EXCEPT ![f].opened = OpenedOf(f, kind),
                              ![f].response =
                                  APIError("INTERNAL_SERVER_ERROR",
                                           "Failed to create session")]
    /\ UNCHANGED <<probe, users, accounts, sessions, now, reg>>

(***************************************************************************)
(* The clock.                                                              *)
(***************************************************************************)
Tick ==
    /\ \E t \in TimePoints : t > now /\ now' = t
    /\ UNCHANGED <<probe, users, accounts, sessions, reg, login>>

(***************************************************************************)
(* Specifications.  Spec: one registration at a time and one login flow,   *)
(* with every failure of the store and the clock.  SpecRace: the           *)
(* registration-complete requests of both slots, interleaved at their      *)
(* awaits.  SpecFlows: two login flows side by side against accounts       *)
(* registered through one slot.                                            *)
(***************************************************************************)
RememberFlags == {"true", "false", "absent"}

Registration(r) ==
    \/ \E email \in Emails, password \in RegistrationPasswords,
          chars \in RegistrationRequestChars :
            GetRegisterChallenge(r, email, NameOf(email), password, chars)
    \/ \E chars \in RecordChars : CompleteRegistrationStart(r, chars)
    \/ CompleteRegistrationConflict(r)
    \/ CompleteRegistrationCreateUser(r)
    \/ CompleteRegistrationCreateAccount(r)
    \/ CompleteRegistrationCreateSession(r)

RegistrationFailure(r) ==
    \/ CompleteRegistrationAccountFails(r)
    \/ CompleteRegistrationSessionFails(r)

LoginFlow(f, flags) ==
    \/ \E email \in Emails, password \in Passwords,
          chars \in LoginRequestChars :
            GetLoginChallengeStart(f, email, password, chars)
    \/ GetLoginChallengeFinish(f)
    \/ \E kind \in EnvelopeKinds, honest \in BOOLEAN :
            CompleteLoginRejected(f, kind, honest)
    \/ \E kind \in EnvelopeKinds, honest \in BOOLEAN,
          dontRememberMe \in flags :
            CompleteLogin(f, kind, honest, dontRememberMe)

LoginFailure(f) ==
    \E kind \in EnvelopeKinds, honest \in BOOLEAN :
        CompleteLoginSessionFails(f, kind, honest)

Next ==
    \/ Registration("r1")
    \/ RegistrationFailure("r1")
    \/ LoginFlow("f1", RememberFlags)
    \/ LoginFailure("f1")
    \/ Tick

Spec == Init /\ [][Next]_vars

NextRace ==
    \/ \E r \in RegSlots : Registration(r)
    \/ \E r \in RegSlots : RegistrationFailure(r)

SpecRace == Init /\ [][NextRace]_vars

NextFlows ==
    \/ Registration("r1")
    \/ \E f \in LoginFlows : LoginFlow(f, {"absent"})

SpecFlows == Init /\ [][NextFlows]_vars

\* One registration, one login flow and the clock, with no failure of the
\* store: the lifetime of a ticket.
NextExpiry ==
    \/ Registration("r1")
    \/ LoginFlow("f1", {"absent"})
    \/ Tick

SpecExpiry == Init /\ [][NextExpiry]_vars

(***************************************************************************)
(* The handlers on blobs of every length around the limits: one            *)
(* registration and one login-challenge at a time.                         *)
(***************************************************************************)
\* Blobs of 31, 32 and 33 bytes.
RegistrationRequestLengths == {42, 43, 44}
\* Blobs of 95, 96 and 97 bytes.
LoginRequestLengths == {127, 128, 130}
\* Blobs of 3, 169, 170, 192, 200, 201 and 300 bytes.
RegistrationRecordLengths == {4, 226, 227, HonestRecordChars, 267, 268, 400}

NextLengths ==
    \/ \E email \in Emails, password \in RegistrationPasswords,
          chars \in RegistrationRequestLengths :
            GetRegisterChallenge("r1", email, NameOf(email), password, chars)
    \/ \E chars \in RegistrationRecordLengths :
            CompleteRegistrationStart("r1", chars)
    \/ CompleteRegistrationConflict("r1")
    \/ CompleteRegistrationCreateUser("r1")
    \/ CompleteRegistrationCreateAccount("r1")
    \/ CompleteRegistrationCreateSession("r1")
    \/ \E email \in Emails, password \in Passwords,
          chars \in LoginRequestLengths :
            GetLoginChallengeStart("f1", email, password, chars)
    \/ GetLoginChallengeFinish("f1")

SpecLengths == Init /\ [][NextLengths]_vars

(***************************************************************************)
(* The envelope functions called directly, on any serverLoginState and any *)
(* user snapshot the signature of encryptServerLoginState admits.          *)
(***************************************************************************)
ProbeStates ==
    {startLogin(email, clientStartLogin("pw1", 128), OPAQUE_SERVER_KEY,
                record).serverLoginState :
        email \in Emails,
        record \in {createDummyRegistrationRecord,
                    RegistrationRecord("pw1", "a@x.test", OPAQUE_SERVER_KEY,
                                       HonestRecordChars)}}

\* null; the three strings of the decoy path; a stored user, with a short
\* name, with names that bring the payload to 1024 and to 1025 bytes, and
\* with a name of 100 escaped characters.
ProbeUsers ==
    {NullUser,
     [id |-> RandomId, email |-> "a@x.test", name |-> RandomName,
      extra |-> FALSE, createdAt |-> "absent"]}
    \cup {[id |-> 1, email |-> "a@x.test", name |-> name, extra |-> TRUE,
           createdAt |-> "Date"] :
            name \in {"Al", "Fits1024", "Over1025", "Esc100"}}

InitEnvelope ==
    /\ users = <<>>
    /\ accounts = <<>>
    /\ sessions = <<>>
    /\ now = 0
    /\ reg = [r \in RegSlots |-> IdleReg]
    /\ login = [f \in LoginFlows |-> IdleLogin]
    /\ probe \in {[NoProbe EXCEPT !.pc = "input", !.serverLoginState = st,
                                   !.user = user] :
                    st \in ProbeStates, user \in ProbeUsers}

\* await encryptServerLoginState(serverLoginState, secret, user)
SealProbe ==
    /\ probe.pc = "input"
    /\ LET sealed == encryptServerLoginState(probe.serverLoginState, Secret,
                                             probe.user, now)
           bytes == stringify(probe.serverLoginState, probe.user, now).bytes
       IN  probe' =
            IF sealed.thrown
            THEN [probe EXCEPT !.pc = "thrown", !.payloadBytes = bytes,
                    !.error = UncaughtError(
                        "Payload size exceeds target padding length.")]
            ELSE [probe EXCEPT !.pc = "sealed", !.payloadBytes = bytes,
                    !.envelope = sealed.envelope]
    /\ UNCHANGED <<users, accounts, sessions, now, reg, login>>

\* await decryptServerLoginState(encryptedState, secret)
OpenProbe(secret) ==
    /\ probe.pc \in {"sealed", "opened"}
    /\ LET result == decryptServerLoginState(probe.envelope, secret, now)
       IN  probe' = [probe EXCEPT !.pc = "opened",
                        !.opened = [data |-> result.data,
                                    outcome |-> result.outcome,
                                    key |-> secret, at |-> now]]
    /\ UNCHANGED <<users, accounts, sessions, now, reg, login>>

NextEnvelope ==
    \/ SealProbe
    \/ \E secret \in {Secret, OtherSecret} : OpenProbe(secret)
    \/ Tick

SpecEnvelope == InitEnvelope /\ [][NextEnvelope]_vars

(***************************************************************************)
(* decryptServerLoginState on the envelopes of both formats: the one        *)
(* encryptServerLoginState seals now, and the one it sealed before the      *)
(* padding and the issuedAt field were added.                               *)
(***************************************************************************)
\* symmetricEncrypt of JSON.stringify({ serverLoginState, user })
encryptServerLoginStateEarlier(serverLoginState, secret, user) ==
    symmetricEncrypt(stringify(serverLoginState, user, NoIssuedAt), secret)

SealProbeEarlier ==
    /\ probe.pc = "input"
    /\ probe' = [probe EXCEPT !.pc = "sealed",
            !.payloadBytes =
                stringify(probe.serverLoginState, probe.user, NoIssuedAt).bytes,
            !.envelope = encryptServerLoginStateEarlier(
                            probe.serverLoginState, Secret, probe.user)]
    /\ UNCHANGED <<users, accounts, sessions, now, reg, login>>

NextFormats ==
    \/ SealProbe
    \/ SealProbeEarlier
    \/ \E secret \in {Secret, OtherSecret} : OpenProbe(secret)
    \/ Tick

SpecFormats == InitEnvelope /\ [][NextFormats]_vars

(***************************************************************************)
(* completeLogin on an envelope that encryptServerLoginState sealed for    *)
(* any serverLoginState and any user snapshot, null included.              *)
(***************************************************************************)
\* The proof sent with the envelope: the one a client holding pw1 computes
\* for the login the serverLoginState belongs to, or any other bytes.
ProbeLoginResult(honest) ==
    IF honest
    THEN clientFinishLogin("pw1", [for |-> probe.serverLoginState])
    ELSE GarbageProof([for |-> probe.serverLoginState])

\* The handler throws before createSession.
CompleteLoginProbeRejected(honest) ==
    /\ probe.pc = "sealed"
    /\ completeLoginOutcome(probe.envelope, ProbeLoginResult(honest)).status
            # "OK"
    /\ probe' = [probe EXCEPT !.pc = "completed", !.honest = honest,
            !.opened = [data |-> probe.envelope.data.json,
                        outcome |-> decryptServerLoginState(
                                        probe.envelope, Secret, now).outcome,
                        key |-> Secret, at |-> now],
            !.response = completeLoginOutcome(probe.envelope,
                                              ProbeLoginResult(honest))]
    /\ UNCHANGED <<users, accounts, sessions, now, reg, login>>

\* createSession, setSessionCookie, the response with the token.
CompleteLoginProbe(honest, dontRememberMe) ==
    /\ probe.pc = "sealed"
    /\ completeLoginOutcome(probe.envelope, ProbeLoginResult(honest)).status
            = "OK"
    /\ Len(sessions) < MaxSessions
    /\ sessions' = Append(sessions,
            [userId |-> completeLoginOutcome(probe.envelope,
                            ProbeLoginResult(honest)).userId,
             dontRememberMe |-> RememberPolicy(dontRememberMe),
             by |-> "completeLogin"])
    /\ probe' = [probe EXCEPT !.pc = "completed", !.honest = honest,
            !.opened = [data |-> probe.envelope.data.json,
                        outcome |-> "ok", key |-> Secret, at |-> now],
            !.response = completeLoginOutcome(probe.envelope,
                                              ProbeLoginResult(honest))]
    /\ UNCHANGED <<users, accounts, now, reg, login>>

NextTickets ==
    \/ SealProbe
    \/ \E honest \in BOOLEAN : CompleteLoginProbeRejected(honest)
    \/ \E honest \in BOOLEAN : CompleteLoginProbe(honest, "absent")
    \/ Tick

SpecTickets == InitEnvelope /\ [][NextTickets]_vars

(***************************************************************************)
(* One registration and one login flow with every failure of the store and *)
(* every value of dontRememberMe, the clock standing still.                *)
(***************************************************************************)
NextSessions ==
    \/ Registration("r1")
    \/ RegistrationFailure("r1")
    \/ LoginFlow("f1", RememberFlags)
    \/ LoginFailure("f1")

SpecSessions == Init /\ [][NextSessions]_vars

\* Repeated registrations that submit different valid records (170 and 192
\* bytes), with one login flow: the life of a stored credential.
CredentialRecordChars == {227, HonestRecordChars}

NextCredentials ==
    \/ \E email \in Emails, password \in RegistrationPasswords,
          chars \in RegistrationRequestChars :
            GetRegisterChallenge("r1", email, NameOf(email), password, chars)
    \/ \E chars \in CredentialRecordChars :
            CompleteRegistrationStart("r1", chars)
    \/ CompleteRegistrationConflict("r1")
    \/ CompleteRegistrationCreateUser("r1")
    \/ CompleteRegistrationCreateAccount("r1")
    \/ CompleteRegistrationCreateSession("r1")
    \/ LoginFlow("f1", {"absent"})

SpecCredentials == Init /\ [][NextCredentials]_vars

(***************************************************************************)
(* The two length checks called directly, on blobs of every length up to   *)
(* MaxBlobChars characters, those that atob does not decode included.      *)
(***************************************************************************)
MaxBlobChars == 270
BlobChars == 0 .. MaxBlobChars
ExactFields == {"registration request", "login request"}
RangeFields == {"registration record"}

ExpectedLength(fieldName) ==
    IF fieldName = "registration request" THEN REGISTRATION_REQUEST_LENGTH
    ELSE LOGIN_REQUEST_LENGTH

InitBlobs ==
    /\ users = <<>>
    /\ accounts = <<>>
    /\ sessions = <<>>
    /\ now = 0
    /\ reg = [r \in RegSlots |-> IdleReg]
    /\ login = [f \in LoginFlows |-> IdleLogin]
    /\ probe \in {[NoProbe EXCEPT !.pc = "blob", !.blob = chars,
                                   !.fieldName = fieldName] :
                    chars \in BlobChars,
                    fieldName \in ExactFields \cup RangeFields}

\* validateBase64Length(base64, expectedLength, fieldName)
ValidateLengthProbe ==
    /\ probe.pc = "blob"
    /\ probe.fieldName \in ExactFields
    /\ probe' = [probe EXCEPT !.pc = "validated",
            !.error = validateBase64Length(probe.blob,
                        ExpectedLength(probe.fieldName), probe.fieldName)]
    /\ UNCHANGED <<users, accounts, sessions, now, reg, login>>

\* validateBase64LengthRange(base64, min, max, fieldName)
ValidateRangeProbe ==
    /\ probe.pc = "blob"
    /\ probe.fieldName \in RangeFields
    /\ probe' = [probe EXCEPT !.pc = "validated",
            !.error = validateBase64LengthRange(probe.blob,
                        REGISTRATION_RECORD_MIN_LENGTH,
                        REGISTRATION_RECORD_MAX_LENGTH, probe.fieldName)]
    /\ UNCHANGED <<users, accounts, sessions, now, reg, login>>

NextBlobs ==
    \/ ValidateLengthProbe
    \/ ValidateRangeProbe

SpecBlobs == InitBlobs /\ [][NextBlobs]_vars

(***************************************************************************)
(* The plugin instance from its construction: opaque(options), the ready   *)
(* promise of the engine, the deferred createSetup, init, and the two      *)
(* challenge endpoints called at any moment the host lets a request in.    *)
(* A host either awaits init before it serves, or does not.                *)
(***************************************************************************)
MaxRequests == 3

\* opaque(options): the key of the options, or none yet.
opaque(supplied, awaitsInit) ==
    [NoPlugin EXCEPT !.supplied = supplied, !.awaitsInit = awaitsInit,
        !.serverKey = IF supplied THEN OPAQUE_SERVER_KEY ELSE Undefined]

\* The database the instance starts on: empty, or holding a user registered
\* with the supplied key under an earlier instance.
InitSetup ==
    /\ \/ users = <<>> /\ accounts = <<>>
       \/ /\ users = <<[id |-> 1, email |-> "a@x.test", name |-> "Al",
                        extra |-> TRUE, createdAt |-> "Date"]>>
          /\ accounts = <<[userId |-> 1, providerId |-> "opaque",
                registrationRecord |->
                    RegistrationRecord("pw1", "a@x.test", OPAQUE_SERVER_KEY,
                                       HonestRecordChars)]>>
    /\ sessions = <<>>
    /\ now = 0
    /\ reg = [r \in RegSlots |-> IdleReg]
    /\ login = [f \in LoginFlows |-> IdleLogin]
    /\ probe \in {[NoProbe EXCEPT !.pc = "plugin",
                                   !.plugin = opaque(supplied, awaitsInit)] :
                    supplied \in BOOLEAN, awaitsInit \in BOOLEAN}

\* The engine's WebAssembly module is loaded: ready resolves.
ReadyResolves ==
    /\ probe.pc = "plugin"
    /\ ~probe.plugin.ready
    /\ probe' = [probe EXCEPT !.plugin.ready = TRUE]
    /\ UNCHANGED <<users, accounts, sessions, now, reg, login>>

\* ready.then(() => { OPAQUE_SERVER_KEY = server.createSetup() })
KeyGenerated ==
    /\ probe.pc = "plugin"
    /\ probe.plugin.ready
    /\ ~probe.plugin.supplied
    /\ probe.plugin.serverKey = Undefined
    /\ probe' = [probe EXCEPT !.plugin.serverKey = createSetup]
    /\ UNCHANGED <<users, accounts, sessions, now, reg, login>>

\* init: async () => { await ready }: its continuation is queued on ready
\* after the callback of ready.then.
InitReturns ==
    /\ probe.pc = "plugin"
    /\ probe.plugin.ready
    /\ ~probe.plugin.initDone
    /\ probe.plugin.supplied \/ probe.plugin.serverKey # Undefined
    /\ probe' = [probe EXCEPT !.plugin.initDone = TRUE]
    /\ UNCHANGED <<users, accounts, sessions, now, reg, login>>

\* The host lets a request reach a handler.
Serving ==
    /\ probe.pc = "plugin"
    /\ probe.plugin.requests < MaxRequests
    /\ probe.plugin.awaitsInit => probe.plugin.initDone

\* An engine call throws while the module is not loaded or on a server
\* setup that is not a string.
EngineThrows(plugin) == ~plugin.ready \/ plugin.serverKey = Undefined

\* getRegisterChallenge: server.createRegistrationResponse with
\* serverSetup: OPAQUE_SERVER_KEY
RegisterChallengeRequest(email) ==
    /\ Serving
    /\ probe' = [probe EXCEPT
            !.plugin.requests = @ + 1,
            !.plugin.endpoint = "getRegisterChallenge",
            !.plugin.engineCalled = TRUE,
            !.plugin.usedKey = probe.plugin.serverKey,
            !.plugin.usedRecord = NoRecord,
            !.response = IF EngineThrows(probe.plugin)
                         THEN UncaughtError("createRegistrationResponse")
                         ELSE ChallengeResponse]
    /\ UNCHANGED <<users, accounts, sessions, now, reg, login>>

\* The decoy of the instance kept from init, as the plugin had it before
\* the decoy was generated per request: unset until init has run.  C32 must
\* fail against it.
DecoyOfInit(plugin) ==
    [thrown |-> FALSE,
     record |-> IF plugin.initDone THEN createDummyRegistrationRecord
                ELSE NoRecord]

\* await createDummyRegistrationRecord(): generated in the request; its
\* first engine call throws while the module is not loaded.
DecoyOfRequest(plugin) ==
    [thrown |-> ~plugin.ready, record |-> createDummyRegistrationRecord]

\* getLoginChallenge: the record of the account or the decoy, then
\* server.startLogin with serverSetup: OPAQUE_SERVER_KEY
LoginChallengeRequest(email) ==
    /\ Serving
    /\ LET user == findUserByEmail(email)
           opaqueAccount == IF user = NullUser THEN NoAccount
                            ELSE findOpaqueAccount(user.id)
           decoy == DecoyOfRequest(probe.plugin)
           registrationRecord == IF opaqueAccount = NoAccount
                                 THEN decoy.record
                                 ELSE opaqueAccount.registrationRecord
       IN  IF opaqueAccount = NoAccount /\ decoy.thrown
           THEN probe' = [probe EXCEPT
                    !.plugin.requests = @ + 1,
                    !.plugin.endpoint = "getLoginChallenge",
                    !.plugin.engineCalled = FALSE,
                    !.plugin.usedKey = Undefined,
                    !.plugin.usedRecord = NoRecord,
                    !.user = user,
                    !.response = UncaughtError("createSetup")]
           ELSE probe' = [probe EXCEPT
                    !.plugin.requests = @ + 1,
                    !.plugin.endpoint = "getLoginChallenge",
                    !.plugin.engineCalled = TRUE,
                    !.plugin.usedKey = probe.plugin.serverKey,
                    !.plugin.usedRecord = registrationRecord,
                    !.user = user,
                    !.response = IF EngineThrows(probe.plugin)
                                 THEN UncaughtError("startLogin")
                                 ELSE [status |-> "OK", message |-> "",
                                       fields |-> {"challenge", "state"},
                                       userId |-> NoId]]
    /\ UNCHANGED <<users, accounts, sessions, now, reg, login>>

NextSetup ==
    \/ ReadyResolves
    \/ KeyGenerated
    \/ InitReturns
    \/ \E email \in Emails : RegisterChallengeRequest(email)
    \/ \E email \in Emails : LoginChallengeRequest(email)

SpecSetup == InitSetup /\ [][NextSetup]_vars

(***************************************************************************)
(* Two login flows, interleaved in every way, against a store that holds   *)
(* one registered user.                                                    *)
(***************************************************************************)
InitPair ==
    /\ users = <<[id |-> 1, email |-> "a@x.test", name |-> "Al",
                  extra |-> TRUE, createdAt |-> "Date"]>>
    /\ accounts = <<[userId |-> 1, providerId |-> "opaque",
            registrationRecord |->
                RegistrationRecord("pw1", "a@x.test", OPAQUE_SERVER_KEY,
                                   HonestRecordChars)]>>
    /\ sessions = <<>>
    /\ now = 0
    /\ reg = [r \in RegSlots |-> IdleReg]
    /\ login = [f \in LoginFlows |-> IdleLogin]
    /\ probe = NoProbe

NextPair == \E f \in LoginFlows : LoginFlow(f, {"absent"})

SpecPair == InitPair /\ [][NextPair]_vars

(***************************************************************************)
(* completeLogin with its whole body: the email field the schema requires  *)
(* and the handler does not read, next to the envelope and the proof.      *)
(***************************************************************************)
\* The email of the envelope's user, another address, and a string that is
\* not an address.
BodyEmails == {"a@x.test", "b@x.test", "not-an-email"}

\* body: z.object({ email: z.email(), ... }): the request reaches the
\* handler only with a well-formed address.
z_email(email) == email \in {"a@x.test", "b@x.test"}

ValidationError == APIError("BAD_REQUEST", "body.email")

\* The user of the session looked up by the email of the body in place of
\* the user of the envelope.  C34 must fail against it.
SessionUserOfBody(email, data) ==
    IF data.user.email = email THEN data.user ELSE NullUser

\* const { serverLoginState, user } = await decryptServerLoginState(...):
\* the user of createSession, setSessionCookie and the response.
SessionUser(email, data) == data.user

CompleteLoginBody(email, honest) ==
    /\ probe.pc = "sealed"
    /\ LET outcome == completeLoginOutcome(probe.envelope,
                                           ProbeLoginResult(honest))
           user == SessionUser(email, probe.envelope.data.json)
       IN  IF ~z_email(email)
           THEN /\ probe' = [probe EXCEPT !.pc = "completed",
                        !.honest = honest, !.email = email,
                        !.response = ValidationError]
                /\ sessions' = sessions
           ELSE IF outcome.status # "OK"
           THEN /\ probe' = [probe EXCEPT !.pc = "completed",
                        !.honest = honest, !.email = email,
                        !.response = outcome]
                /\ sessions' = sessions
           ELSE /\ Len(sessions) < MaxSessions
                /\ sessions' = Append(sessions,
                        [userId |-> user.id,
                         dontRememberMe |-> RememberPolicy("absent"),
                         by |-> "completeLogin"])
                /\ probe' = [probe EXCEPT !.pc = "completed",
                        !.honest = honest, !.email = email,
                        !.response = LoginSuccess(user.id)]
    /\ UNCHANGED <<users, accounts, now, reg, login>>

NextBody ==
    \/ SealProbe
    \/ \E email \in BodyEmails, honest \in BOOLEAN :
            CompleteLoginBody(email, honest)

SpecBody == InitEnvelope /\ [][NextBody]_vars

(***************************************************************************)
(* The client actions signUp.opaque and signIn.opaque against a server     *)
(* that may answer a request with any result.                              *)
(***************************************************************************)
ClientActions == {"signUp", "signIn"}

\* What the challenge request may come back with: an error, no data, data
\* without a challenge, or a challenge (for a login: made with the record of
\* pw1 or with a decoy) and one of two envelopes.
ChallengeResults(email) ==
    {[NoFetch EXCEPT !.error = TRUE], NoFetch, [NoFetch EXCEPT !.data = TRUE]}
    \cup {[NoFetch EXCEPT !.data = TRUE, !.challenge = TRUE,
                !.loginResponse =
                    startLogin(email, clientStartLogin(password, 128),
                               OPAQUE_SERVER_KEY, record).loginResponse,
                !.state = state] :
            password \in Passwords,
            record \in {createDummyRegistrationRecord,
                        RegistrationRecord("pw1", email, OPAQUE_SERVER_KEY,
                                           HonestRecordChars)},
            state \in {"state1", "state2"}}

\* await ready; client.startRegistration / client.startLogin; the $fetch of
\* the challenge endpoint is sent.
ClientStart(action, email, password) ==
    /\ probe.pc = "idle"
    /\ probe.client.pc = "idle"
    /\ probe' = [probe EXCEPT !.client =
            [NoClient EXCEPT !.pc = "awaitChallenge", !.action = action,
                !.email = email, !.password = password,
                !.challengeCalls = 1]]
    /\ UNCHANGED <<users, accounts, sessions, now, reg, login>>

\* The test after the challenge request, written for both actions as
\* signUp.opaque has it minus the data.  C36 must fail against it.
challengeFailedOnErrorOnly(action, challengeResponse) ==
    challengeResponse.error

\* challengeResponse.error || !challengeResponse.data ||
\* !challengeResponse.data.challenge in signUp.opaque; signIn.opaque tests
\* the data and the challenge only.
challengeFailed(action, challengeResponse) ==
    IF action = "signUp"
    THEN \/ challengeResponse.error
         \/ ~challengeResponse.data
         \/ ~challengeResponse.challenge
    ELSE \/ ~challengeResponse.data
         \/ ~challengeResponse.challenge

\* The challenge request returns: the action returns an error, or sends the
\* complete request.
ChallengeReturns(email, challengeResponse) ==
    /\ probe.client.pc = "awaitChallenge"
    /\ probe.client.email = email
    /\ LET c == probe.client
           loginAttempt == clientFinishLogin(c.password,
                                             challengeResponse.loginResponse)
       IN  IF challengeFailed(c.action, challengeResponse)
           THEN probe' = [probe EXCEPT !.client =
                    [c EXCEPT !.pc = "returned",
                        !.challengeResponse = challengeResponse,
                        !.returned = "error"]]
           ELSE IF c.action = "signIn" /\ ~loginAttempt.defined
           THEN probe' = [probe EXCEPT !.client =
                    [c EXCEPT !.pc = "returned",
                        !.challengeResponse = challengeResponse,
                        !.returned = "error"]]
           ELSE probe' = [probe EXCEPT !.client =
                    [c EXCEPT !.pc = "awaitComplete",
                        !.challengeResponse = challengeResponse,
                        !.completeCalls = @ + 1,
                        !.sentProof = (c.action = "signIn"),
                        !.sentState = IF c.action = "signIn"
                                      THEN challengeResponse.state ELSE ""]]
    /\ UNCHANGED <<users, accounts, sessions, now, reg, login>>

\* return await $fetch(".../complete"): the action returns what the
\* complete request came back with.
CompleteReturns(error) ==
    /\ probe.client.pc = "awaitComplete"
    /\ probe' = [probe EXCEPT !.client.pc = "returned",
            !.client.returned = IF error THEN "error" ELSE "data"]
    /\ UNCHANGED <<users, accounts, sessions, now, reg, login>>

NextClient ==
    \/ \E action \in ClientActions, email \in Emails, password \in Passwords :
            ClientStart(action, email, password)
    \/ \E email \in Emails :
            \E challengeResponse \in ChallengeResults(email) :
                ChallengeReturns(email, challengeResponse)
    \/ \E error \in BOOLEAN : CompleteReturns(error)

SpecClient == Init /\ [][NextClient]_vars

(***************************************************************************)
(* Requests in flight.  Two registrations and one login flow, with every   *)
(* failure of the store.  A handler suspended at an await resumes when the *)
(* awaited call returns or throws: the step after each await is weakly     *)
(* fair.  Nothing obliges a client to send a request.                      *)
(***************************************************************************)
\* createUser throws: the handler has no try/catch, the request ends with
\* the error.
CompleteRegistrationUserFails(r) ==
    /\ reg[r].pc = "lookedUp"
    /\ ~reg[r].existingUser
    /\ reg' = [reg EXCEPT ![r] = Done(reg[r].email,
                UncaughtError("createUser failed"))]
    /\ UNCHANGED <<probe, users, accounts, sessions, now, login>>

\* Well-formed requests only (43 characters encode the 32 bytes of a
\* registration request, 128 the 96 bytes of a login request): a request
\* refused by a length check ends in the step it starts in.  All are for
\* one email, so that the registrations race or repeat each other and the
\* login meets the user they create.
NextLive ==
    \/ \E r \in RegSlots :
            GetRegisterChallenge(r, "a@x.test", NameOf("a@x.test"), "pw1", 43)
    \/ \E r \in RegSlots : CompleteRegistrationStart(r, HonestRecordChars)
    \/ \E r \in RegSlots : CompleteRegistrationConflict(r)
    \/ \E r \in RegSlots : CompleteRegistrationCreateUser(r)
    \/ \E r \in RegSlots : CompleteRegistrationUserFails(r)
    \/ \E r \in RegSlots : CompleteRegistrationCreateAccount(r)
    \/ \E r \in RegSlots : CompleteRegistrationAccountFails(r)
    \/ \E r \in RegSlots : CompleteRegistrationCreateSession(r)
    \/ \E r \in RegSlots : CompleteRegistrationSessionFails(r)
    \/ GetLoginChallengeStart("f1", "a@x.test", "pw1", 128)
    \/ GetLoginChallengeFinish("f1")
    \/ \E honest \in BOOLEAN : CompleteLoginRejected("f1", "ticket", honest)
    \/ CompleteLogin("f1", "ticket", TRUE, "absent")
    \/ CompleteLoginSessionFails("f1", "ticket", TRUE)

SpecLive ==
    /\ Init
    /\ [][NextLive]_vars
    /\ \A r \in RegSlots :
        /\ WF_vars(CompleteRegistrationConflict(r))
        /\ WF_vars(CompleteRegistrationCreateUser(r)
                    \/ CompleteRegistrationUserFails(r))
        /\ WF_vars(CompleteRegistrationCreateAccount(r)
                    \/ CompleteRegistrationAccountFails(r))
        /\ WF_vars(CompleteRegistrationCreateSession(r)
                    \/ CompleteRegistrationSessionFails(r))
    /\ WF_vars(GetLoginChallengeFinish("f1"))

(***************************************************************************)
(* Claims.                                                                 *)
(***************************************************************************)
AuthenticationFailed == APIError("UNAUTHORIZED", "Login failed")

\* The ticket a flow holds: the identity and the record sealed in it.
TicketUser(f) == login[f].state.data.json.user
TicketRecord(f) == login[f].state.data.json.serverLoginState.rec
TicketIssuedAt(f) == login[f].state.data.json.issuedAt

\* The flow's last request was a login-complete.
Completed(f) == login[f].pc = "challenged" /\ login[f].opened # ""

\* A login-complete, on a ticket that opened, of a client that does not
\* hold the password of the registered account the ticket was issued for.
WrongPasswordCase(f) ==
    /\ Completed(f)
    /\ login[f].opened = "ok"
    /\ TicketUser(f).extra
    /\ TicketRecord(f) # createDummyRegistrationRecord
    /\ TicketRecord(f).pw # login[f].password

\* A login-complete, on a ticket that opened, for an email that had no user
\* at login-challenge.
NoUserCase(f) ==
    /\ Completed(f)
    /\ login[f].opened = "ok"
    /\ TicketUser(f).id = RandomId

\* C1: login-complete with a wrong-password proof for a registered email and
\* login-complete for a non-existent email end in the same outcome: the
\* AuthenticationFailed error with the same status, message and (no) fields,
\* and neither flow has obtained a session.
C1_SameFailure ==
    \A f \in LoginFlows, g \in LoginFlows :
        (WrongPasswordCase(f) /\ NoUserCase(g)) =>
            /\ login[f].response = login[g].response
            /\ login[f].response = AuthenticationFailed
            /\ ~login[f].won /\ ~login[g].won
            /\ \A i \in Indexes(sessions) : sessions[i].userId # RandomId

C1_Witness ==
    WrongPasswordCase("f1") /\ NoUserCase("f2")

\* C2 (as claimed): a login-complete that cannot open the envelope answers
\* with the generic authentication failure of a wrong password, whether the
\* envelope is expired, tampered, under another key or malformed.
C2_UnopenedIsGeneric ==
    \A f \in LoginFlows :
        (Completed(f) /\ login[f].opened \in {"decrypt", "parse", "expired"})
            => login[f].response = AuthenticationFailed

\* The flow's last request was a login-challenge with a valid LoginRequest;
\* Snapshot is the identity the handler took for the envelope.
ChallengeAnswered(f) ==
    /\ login[f].opened = ""
    /\ login[f].response # NoResponse
    /\ login[f].response # APIError("BAD_REQUEST", "Invalid login request")

Snapshot(f) ==
    IF login[f].pc = "challenged" THEN TicketUser(f) ELSE login[f].user

\* C3 (as claimed): login-challenge for a registered email and for an
\* unregistered email both answer with success, the same fields and a
\* sealed state of the same length.
C3_ChallengeShape ==
    \A f \in LoginFlows, g \in LoginFlows :
        ( /\ ChallengeAnswered(f) /\ Snapshot(f).extra
          /\ findOpaqueAccount(Snapshot(f).id) # NoAccount
          /\ ChallengeAnswered(g) /\ Snapshot(g).id = RandomId ) =>
            /\ login[f].response.status = "OK"
            /\ login[g].response.status = "OK"
            /\ login[f].response.fields = login[g].response.fields
            /\ CipherChars(login[f].state) = CipherChars(login[g].state)

\* The registration-complete request of the slot has ended past the length
\* check and without a failure of the store.
RegistrationAnswered(r) ==
    /\ reg[r].pc = "done"
    /\ reg[r].response.status \notin {"BAD_REQUEST", "INTERNAL_SERVER_ERROR"}

\* C4 (as claimed): two registration-complete calls with the same email
\* return the same success shape, and none says the account already exists.
C4_DuplicateSameSuccess ==
    \A r \in RegSlots, q \in RegSlots :
        ( /\ RegistrationAnswered(r) /\ RegistrationAnswered(q)
          /\ reg[r].email = reg[q].email ) =>
            /\ reg[r].response.status = reg[q].response.status
            /\ reg[r].response.message = reg[q].response.message
            /\ reg[r].response.fields = reg[q].response.fields
            /\ reg[r].response.status # "CONFLICT"

\* C5 (as claimed): registration-complete never creates a session and never
\* returns a session token.
C5_NoSessionOnRegistration ==
    /\ \A i \in Indexes(sessions) : sessions[i].by # "completeRegistration"
    /\ \A r \in RegSlots : "token" \notin reg[r].response.fields

\* C6: a registration-complete call that finds a user for its email changes
\* nothing in the store (no user, no account, no session, the stored users
\* and records as they were) and ends without a token or a user id.
C6_DuplicateChangesNothing ==
    [][\A r \in RegSlots :
        ( /\ reg'[r] # reg[r]
          /\ \/ reg[r].pc = "lookedUp" /\ reg[r].existingUser
             \/ /\ reg[r].pc = "challenged"
                /\ findUserByEmail(reg[r].email) # NullUser ) =>
            /\ users' = users
            /\ accounts' = accounts
            /\ sessions' = sessions
            /\ reg'[r].pc \in {"lookedUp", "done"}
            /\ reg'[r].pc = "lookedUp" => reg'[r].existingUser
            /\ reg'[r].pc = "done" =>
                    /\ "token" \notin reg'[r].response.fields
                    /\ reg'[r].response.userId = NoId]_vars

C6_Witness ==
    \E r \in RegSlots :
        /\ reg[r].pc = "done"
        /\ reg[r].response.status = "CONFLICT"
        /\ findUserByEmail(reg[r].email) # NullUser

\* C7 (as claimed): in every reachable state at most one user and at most
\* one opaque account exist for an email.
UsersOf(email) == {i \in Indexes(users) : users[i].email = email}

OpaqueAccountsOf(email) ==
    {i \in Indexes(accounts) :
        /\ accounts[i].providerId = "opaque"
        /\ \E u \in UsersOf(email) : users[u].id = accounts[i].userId}

C7_OneUserPerEmail ==
    \A email \in Emails :
        /\ Cardinality(UsersOf(email)) <= 1
        /\ Cardinality(OpaqueAccountsOf(email)) <= 1

\* The registration-complete for the email has succeeded: a slot holds its
\* answer, and the store holds the user with the record of the password.
RegisteredWith(email, password) ==
    /\ \E r \in RegSlots :
            /\ reg[r].pc = "done"
            /\ reg[r].email = email
            /\ reg[r].response.status = "CREATED"
    /\ findUserByEmail(email) # NullUser
    /\ findOpaqueAccount(findUserByEmail(email).id) # NoAccount
    /\ findOpaqueAccount(findUserByEmail(email).id).registrationRecord.pw
            = password

\* The step appends a session created by completeLogin.
LoginSessionCreated ==
    /\ Len(sessions') = Len(sessions) + 1
    /\ sessions'[Len(sessions')].by = "completeLogin"

\* C8 (as claimed): once registration-complete has succeeded for E with P, a
\* login-challenge for E with P succeeds, the login-complete that follows
\* within 15 minutes with the ticket and the client's proof succeeds for the
\* registered user, and a flow with another password creates no session.
C8_LoginAfterRegistration ==
    [][\A f \in LoginFlows :
        /\ ( /\ login[f].pc = "found"
             /\ login'[f] # login[f]
             /\ RegisteredWith(login[f].email, login[f].password) ) =>
                /\ login'[f].pc = "challenged"
                /\ login'[f].response.status = "OK"
        /\ ( /\ login[f].pc = "challenged"
             /\ RegisteredWith(login[f].email, login[f].password)
             /\ TicketRecord(f).pw = login[f].password
             /\ now <= TicketIssuedAt(f) + EXPIRY_MS ) =>
                /\ OutcomeOf(f, "ticket", TRUE).status = "OK"
                /\ OutcomeOf(f, "ticket", TRUE).userId =
                        findUserByEmail(login[f].email).id
        /\ ( /\ login[f].pc = "challenged"
             /\ login'[f].pc = "challenged"
             /\ login'[f].state = login[f].state
             /\ TicketRecord(f).pw # login[f].password ) =>
                ~LoginSessionCreated]_vars

\* C9 (as claimed): after a login-complete has succeeded with a ticket, no
\* later login-complete with the same ticket creates a session.
C9_TicketOneShot ==
    [][\A f \in LoginFlows :
        ( /\ login[f].won
          /\ login'[f].pc = "challenged"
          /\ login'[f].state = login[f].state ) =>
            ~LoginSessionCreated]_vars

\* C10: a login-complete that presents its ticket gets the expiry error
\* exactly when more than 15 minutes have passed since the ticket was
\* sealed (at 14:59 and at 15:00 the ticket opens), and no session is
\* created from a ticket older than 15 minutes.
C10_Expiry ==
    [][\A f \in LoginFlows :
        ( /\ login[f].pc = "challenged"
          /\ login'[f].pc = "challenged"
          /\ login'[f].state = login[f].state
          /\ login'[f].opened \in {"ok", "expired"}
          /\ login'[f] # login[f] \/ LoginSessionCreated ) =>
            /\ login'[f].opened = "expired"
                    <=> now - TicketIssuedAt(f) > EXPIRY_MS
            /\ login'[f].opened = "expired" =>
                    login'[f].response =
                        APIError("BAD_REQUEST", "Login state has expired")
            /\ LoginSessionCreated =>
                    now - TicketIssuedAt(f) <= EXPIRY_MS]_vars

C10_Witness ==
    \E f \in LoginFlows :
        /\ Completed(f)
        /\ login[f].opened = "expired"
        /\ now - TicketIssuedAt(f) = EXPIRY_MS + 1

(***************************************************************************)
(* Claims on the envelope functions.                                       *)
(***************************************************************************)
\* The direct call of seal has returned an envelope, and it was opened with
\* the same secret within 15 minutes of sealing.
OpenedInTime ==
    /\ probe.pc = "opened"
    /\ probe.opened.key = Secret
    /\ probe.opened.at <= probe.envelope.data.json.issuedAt + EXPIRY_MS

\* C11 (as claimed): for every serverLoginState and user snapshot, null or
\* populated, whose serialized form is at most 1024 bytes, opening what seal
\* produced, with the same secret and within 15 minutes, returns that
\* serverLoginState and that user snapshot unchanged.
C11_RoundTrip ==
    OpenedInTime =>
        /\ probe.opened.outcome = "ok"
        /\ probe.opened.data.serverLoginState = probe.serverLoginState
        /\ probe.opened.data.user = probe.user

\* C12: every envelope seal produces is the encryption of a plaintext of
\* exactly 1024 bytes, so its length is the same whatever the
\* serverLoginState and the user snapshot.
C12_ConstantLength ==
    probe.pc \in {"sealed", "opened"} =>
        /\ probe.envelope.data.bytes = TARGET_PAYLOAD_LENGTH
        /\ CipherChars(probe.envelope) = 2 * (24 + TARGET_PAYLOAD_LENGTH + 16)

C12_Witness ==
    /\ probe.pc = "sealed"
    /\ probe.user.extra
    /\ probe.payloadBytes < TARGET_PAYLOAD_LENGTH

\* C13: seal throws the payload-too-large error, returning no envelope,
\* exactly when the serialized payload is longer than 1024 bytes; a payload
\* of 1024 bytes or fewer is sealed whole.
C13_PayloadTooLarge ==
    probe.pc \in {"thrown", "sealed"} =>
        /\ probe.pc = "thrown" <=> probe.payloadBytes > TARGET_PAYLOAD_LENGTH
        /\ probe.pc = "thrown" =>
                /\ probe.envelope = NoEnvelope
                /\ probe.error = UncaughtError(
                        "Payload size exceeds target padding length.")
        /\ probe.pc = "sealed" =>
                /\ probe.envelope.data.json.serverLoginState
                        = probe.serverLoginState
                /\ probe.envelope.data.json.user.name = probe.user.name
                /\ probe.envelope.data.json.user.email = probe.user.email
                /\ probe.envelope.data.json.user.id = probe.user.id

C13_Witness ==
    /\ probe.pc = "thrown"
    /\ probe.payloadBytes = TARGET_PAYLOAD_LENGTH + 1

(***************************************************************************)
(* Claims on the length checks.                                            *)
(***************************************************************************)
\* C14: the exact-length check accepts a blob exactly when its decoded
\* length is the expected one: registration-challenge accepts a
\* RegistrationRequest of 32 bytes and rejects 31 and 33, login-challenge
\* accepts a LoginRequest of 96 bytes and rejects 95 and 97, and a rejection
\* is a BAD_REQUEST error.
C14_ExactLength ==
    [][/\ \A r \in RegSlots, email \in Emails,
          password \in RegistrationPasswords,
          chars \in RegistrationRequestLengths :
            GetRegisterChallenge(r, email, NameOf(email), password, chars) =>
                IF base64UrlDecode(chars) = 32
                THEN /\ reg'[r].pc = "challenged"
                     /\ reg'[r].response = ChallengeResponse
                ELSE /\ reg'[r].pc = "done"
                     /\ reg'[r].response =
                            APIError("BAD_REQUEST",
                                     "Invalid registration request")
       /\ \A f \in LoginFlows, email \in Emails, password \in Passwords,
          chars \in LoginRequestLengths :
            GetLoginChallengeStart(f, email, password, chars) =>
                IF base64UrlDecode(chars) = 96
                THEN login'[f].response.status # "BAD_REQUEST"
                ELSE /\ login'[f].pc = "idle"
                     /\ login'[f].response =
                            APIError("BAD_REQUEST", "Invalid login request")
      ]_vars

C14_Witness ==
    /\ reg["r1"].pc = "challenged"
    /\ login["f1"].pc = "idle"
    /\ login["f1"].response = APIError("BAD_REQUEST", "Invalid login request")

\* C15: the range check of registration-complete is inclusive at both ends:
\* a RegistrationRecord of 170 to 200 decoded bytes is accepted, and one of
\* 169 or 201 bytes, or any length outside the range, is rejected with a
\* BAD_REQUEST error.
C15_InclusiveRange ==
    [][\A r \in RegSlots, chars \in RegistrationRecordLengths :
        CompleteRegistrationStart(r, chars) =>
            IF /\ 170 <= base64UrlDecode(chars)
               /\ base64UrlDecode(chars) <= 200
            THEN /\ reg'[r].pc = "lookedUp"
                 /\ reg'[r].registrationRecord.chars = chars
            ELSE /\ reg'[r].pc = "done"
                 /\ reg'[r].response =
                        APIError("BAD_REQUEST", "Invalid registration record")
      ]_vars

C15_Witness ==
    /\ \E i \in Indexes(accounts) :
            base64UrlDecode(accounts[i].registrationRecord.chars) = 200
    /\ \E i \in Indexes(accounts) :
            base64UrlDecode(accounts[i].registrationRecord.chars) = 170
    /\ reg["r1"].response =
            APIError("BAD_REQUEST", "Invalid registration record")

\* C16: in registration-challenge, registration-complete and
\* login-challenge a blob that fails its length check is rejected before any
\* other work: the request reads and writes nothing in the store, gets
\* nothing from the engine and creates no session.
C16_ValidationFirst ==
    [][/\ \A r \in RegSlots, email \in Emails,
          password \in RegistrationPasswords,
          chars \in RegistrationRequestLengths :
            ( /\ GetRegisterChallenge(r, email, NameOf(email), password, chars)
              /\ base64UrlDecode(chars) # REGISTRATION_REQUEST_LENGTH ) =>
                /\ <<users', accounts', sessions'>>
                        = <<users, accounts, sessions>>
                /\ reg'[r].pc = "done"
                /\ "challenge" \notin reg'[r].response.fields
                /\ reg'[r].registrationRecord = NoRecord
       /\ \A r \in RegSlots, chars \in RegistrationRecordLengths :
            ( /\ CompleteRegistrationStart(r, chars)
              /\ \/ base64UrlDecode(chars) < REGISTRATION_RECORD_MIN_LENGTH
                 \/ base64UrlDecode(chars) > REGISTRATION_RECORD_MAX_LENGTH
            ) =>
                /\ <<users', accounts', sessions'>>
                        = <<users, accounts, sessions>>
                /\ reg'[r].pc = "done"
                /\ ~reg'[r].existingUser
                /\ reg'[r].userId = NoId
       /\ \A f \in LoginFlows, email \in Emails, password \in Passwords,
          chars \in LoginRequestLengths :
            ( /\ GetLoginChallengeStart(f, email, password, chars)
              /\ base64UrlDecode(chars) # LOGIN_REQUEST_LENGTH ) =>
                /\ <<users', accounts', sessions'>>
                        = <<users, accounts, sessions>>
                /\ login'[f].pc = "idle"
                /\ login'[f].user = NullUser
                /\ login'[f].challenge = IdleLogin.challenge
                /\ login'[f].state = NoEnvelope
      ]_vars

C16_Witness ==
    /\ reg["r1"].pc = "done"
    /\ reg["r1"].response =
            APIError("BAD_REQUEST", "Invalid registration record")
    /\ findUserByEmail(reg["r1"].email) # NullUser
    /\ login["f1"].response = APIError("BAD_REQUEST", "Invalid login request")

(***************************************************************************)
(* Claims on login-complete and on the unit of registration.               *)
(***************************************************************************)
\* The session key the engine reports for the proof the direct call sent.
ProbeSessionKey ==
    finishLogin(ProbeLoginResult(probe.honest), probe.serverLoginState)

\* C17: login-complete fails with the one AuthenticationFailed error
\* (UNAUTHORIZED, "Login failed") when finishLogin reports no session key
\* and when the user recovered from the envelope is null, and creates no
\* session in either case.
C17_NoKeyOrNoUser ==
    ( /\ probe.pc = "completed"
      /\ probe.opened.outcome = "ok"
      /\ ProbeSessionKey = None \/ probe.user = NullUser ) =>
        /\ probe.response = AuthenticationFailed
        /\ sessions = <<>>

C17_Witness ==
    /\ probe.pc = "completed"
    /\ probe.opened.outcome = "ok"
    /\ probe.user = NullUser
    /\ ProbeSessionKey # None
    /\ probe.response = AuthenticationFailed

\* C18: login-complete calls createSession with the remember policy equal
\* to the request's dontRememberMe flag, and false when the flag is absent;
\* a correct-password login succeeds, with success and a token, whether the
\* flag is true, false or absent.
C18_RememberPolicy ==
    [][/\ LoginSessionCreated =>
            \A f \in LoginFlows, kind \in EnvelopeKinds, honest \in BOOLEAN,
               dontRememberMe \in RememberFlags :
                CompleteLogin(f, kind, honest, dontRememberMe) =>
                    /\ sessions'[Len(sessions')].dontRememberMe
                            = (dontRememberMe = "true")
                    /\ login'[f].response.status = "OK"
                    /\ {"success", "token"}
                            \subseteq login'[f].response.fields
       /\ \A f \in LoginFlows :
            ( /\ CompleteLoginRequest(f, "ticket", TRUE)
              /\ now <= TicketIssuedAt(f) + EXPIRY_MS ) =>
                OutcomeOf(f, "ticket", TRUE) = LoginSuccess(TicketUser(f).id)
      ]_vars

C18_Witness ==
    /\ \E i \in Indexes(sessions) :
            sessions[i].by = "completeLogin" /\ sessions[i].dontRememberMe
    /\ \E i \in Indexes(sessions) :
            sessions[i].by = "completeLogin" /\ ~sessions[i].dontRememberMe

\* C19: a session created by login-complete is for a user id that was in
\* the store with an opaque account when the login-challenge of its ticket
\* ran, the ticket holding that account's record, and is created only after
\* finishLogin returned a session key; a ticket of the decoy path leads to
\* no session.
C19_SessionUser ==
    [][LoginSessionCreated =>
       \A f \in LoginFlows, kind \in EnvelopeKinds, honest \in BOOLEAN,
          dontRememberMe \in RememberFlags :
        CompleteLogin(f, kind, honest, dontRememberMe) =>
            /\ sessions'[Len(sessions')].userId = TicketUser(f).id
            /\ TicketUser(f).id # RandomId
            /\ \E i \in Indexes(users) : users[i].id = TicketUser(f).id
            /\ findOpaqueAccount(TicketUser(f).id) # NoAccount
            /\ TicketRecord(f) =
                    findOpaqueAccount(TicketUser(f).id).registrationRecord
            /\ TicketRecord(f) # createDummyRegistrationRecord
            /\ finishLogin(LoginResult(f, honest),
                           login[f].state.data.json.serverLoginState) # None
      ]_vars

C19_Witness ==
    /\ \E i \in Indexes(sessions) : sessions[i].by = "completeLogin"
    /\ \E i \in Indexes(users) : findOpaqueAccount(users[i].id) = NoAccount

\* C20 (as claimed): once no registration-complete request is in flight,
\* every user has an opaque account, whether the requests ended with
\* success or with an error.
C20_UserHasCredential ==
    (\A r \in RegSlots : reg[r].pc \in {"idle", "challenged", "done"}) =>
        \A i \in Indexes(users) : findOpaqueAccount(users[i].id) # NoAccount

(***************************************************************************)
(* Claims on the decoy path and on what the store holds.                   *)
(***************************************************************************)
\* C21 (as claimed): whenever login-challenge passes a decoy record to
\* startLogin, the user sealed in the envelope is the synthesized one, with
\* the random id that no stored user has; a stored user is sealed only with
\* that user's own stored record.
C21_DecoyIdentity ==
    \A f \in LoginFlows :
        (login[f].pc = "challenged") =>
            /\ TicketRecord(f) = createDummyRegistrationRecord =>
                    /\ TicketUser(f).id = RandomId
                    /\ \A i \in Indexes(users) : users[i].id # TicketUser(f).id
            /\ TicketUser(f).id # RandomId =>
                    TicketRecord(f) =
                        findOpaqueAccount(TicketUser(f).id).registrationRecord

\* The step ends a login-challenge of the flow with a ticket.
ChallengeIssued(f) ==
    /\ login'[f] # login[f]
    /\ login'[f].pc = "challenged"
    /\ login'[f].opened = ""

\* The record the store holds for the email as the challenge is issued, or
\* the decoy when there is no user or no opaque account.
RecordFor(email) ==
    IF /\ findUserByEmail(email) # NullUser
       /\ findOpaqueAccount(findUserByEmail(email).id) # NoAccount
    THEN findOpaqueAccount(findUserByEmail(email).id).registrationRecord
    ELSE createDummyRegistrationRecord

\* C22: a login-challenge with a valid LoginRequest calls startLogin once,
\* with the server setup key, the email as identifier and the LoginRequest;
\* the record it passes is the one stored for the email when the user
\* exists with an opaque account, and a generated decoy in every other case.
C22_StartLoginArguments ==
    [][\A f \in LoginFlows :
        ChallengeIssued(f) =>
            LET st == login'[f].state.data.json.serverLoginState
            IN  /\ st.setup = OPAQUE_SERVER_KEY
                /\ st.ident = login'[f].email
                /\ st.req = login'[f].loginRequest
                /\ base64UrlDecode(st.req.chars) = LOGIN_REQUEST_LENGTH
                /\ st.rec = RecordFor(login'[f].email)
                /\ login'[f].challenge = [for |-> st]
      ]_vars

C22_Witness ==
    \E f \in LoginFlows :
        /\ login[f].pc = "challenged"
        /\ login[f].opened = ""
        /\ TicketRecord(f) # createDummyRegistrationRecord
        /\ TicketRecord(f) = RecordFor(login[f].email)

\* The rows of the store that carry a user id.
UserRows(id) == {i \in Indexes(users) : users[i].id = id}
AccountRows(id) == {i \in Indexes(accounts) : accounts[i].userId = id}

\* C23: a registration-complete call with a valid RegistrationRecord for an
\* email without a user creates one user with that email and name and one
\* account with provider "opaque", bound to the new user's id and holding
\* the submitted record, and then answers 201 with success.
C23_RegistrationCreates ==
    [][\A r \in RegSlots :
        /\ CompleteRegistrationCreateUser(r) =>
            /\ findUserByEmail(reg[r].email) = NullUser \/ ~reg[r].existingUser
            /\ Len(users') = Len(users) + 1
            /\ UserRows(reg'[r].userId) = {}
        /\ CompleteRegistrationCreateAccount(r) =>
            /\ Len(accounts') = Len(accounts) + 1
            /\ AccountRows(reg[r].userId) = {}
        /\ CompleteRegistrationCreateSession(r) =>
            /\ Cardinality(UserRows(reg[r].userId)) = 1
            /\ \A i \in UserRows(reg[r].userId) :
                    /\ users[i].email = reg[r].email
                    /\ users[i].name = reg[r].name
            /\ Cardinality(AccountRows(reg[r].userId)) = 1
            /\ \A i \in AccountRows(reg[r].userId) :
                    /\ accounts[i].providerId = "opaque"
                    /\ accounts[i].registrationRecord
                            = reg[r].registrationRecord
            /\ validateBase64LengthRange(reg[r].registrationRecord.chars,
                    REGISTRATION_RECORD_MIN_LENGTH,
                    REGISTRATION_RECORD_MAX_LENGTH,
                    "registration record") = NoResponse
            /\ reg'[r].response.status = "CREATED"
            /\ "success" \in reg'[r].response.fields
            /\ reg'[r].response.userId = reg[r].userId
      ]_vars

C23_Witness ==
    \E r \in RegSlots :
        /\ reg[r].pc = "done"
        /\ reg[r].response.status = "CREATED"
        /\ Cardinality(AccountRows(reg[r].response.userId)) = 1

\* C24: a stored RegistrationRecord is written once, by the
\* registration-complete call that submitted it, and no later registration
\* or login step changes or deletes it: every step keeps every existing
\* account row, and a new row holds the record of the call that adds it.
C24_CredentialImmutable ==
    [][/\ Len(accounts') >= Len(accounts)
       /\ \A i \in Indexes(accounts) : accounts'[i] = accounts[i]
       /\ Len(accounts') > Len(accounts) =>
            /\ Len(accounts') = Len(accounts) + 1
            /\ \E r \in RegSlots :
                /\ reg[r].pc = "userCreated"
                /\ reg'[r].pc = "accountCreated"
                /\ accounts'[Len(accounts')].userId = reg[r].userId
                /\ accounts'[Len(accounts')].registrationRecord
                        = reg[r].registrationRecord
      ]_vars

\* A second registration for the email was refused and a login created a
\* session, with the account still in the store.
C24_Witness ==
    /\ accounts # <<>>
    /\ \E r \in RegSlots :
        /\ reg[r].pc = "done"
        /\ reg[r].response.status = "CONFLICT"
        /\ findOpaqueAccount(findUserByEmail(reg[r].email).id) # NoAccount
    /\ \E i \in Indexes(sessions) : sessions[i].by = "completeLogin"

\* A step of a login request: the flow's position, ticket or response
\* changes, or completeLogin appends its session.
LoginStep ==
    \/ login' # login
    \/ LoginSessionCreated

\* C25: neither login step creates, changes or deletes a user or an account
\* credential; login-challenge leaves the sessions unchanged as well, and
\* login-complete changes nothing except that a success appends exactly one
\* session to the ones that were there.
C25_LoginFrame ==
    [][LoginStep =>
        /\ users' = users
        /\ accounts' = accounts
        /\ \/ sessions' = sessions
           \/ /\ LoginSessionCreated
              /\ \A i \in Indexes(sessions) : sessions'[i] = sessions[i]
              /\ \E f \in LoginFlows :
                    /\ login[f].pc = "challenged"
                    /\ login'[f].opened # ""
                    /\ login'[f].won
                    /\ login'[f].response.status = "OK"
                    /\ login'[f].response.userId
                            = sessions'[Len(sessions')].userId
      ]_vars

\* One login-complete was refused after another one had created a session,
\* with a registered user in the store.
C25_Witness ==
    /\ users # <<>>
    /\ accounts # <<>>
    /\ \E i \in Indexes(sessions) : sessions[i].by = "completeLogin"
    /\ \E f \in LoginFlows :
        /\ login[f].opened # ""
        /\ login[f].won
        /\ login[f].response = AuthenticationFailed

\* A step of getRegisterChallenge for slot r.
RegisterChallengeStep(r) ==
    /\ reg[r].pc \in {"idle", "done"}
    /\ reg'[r] # reg[r]

\* C26: registration-challenge writes no user, credential or session, and
\* its response is the challenge for a RegistrationRequest of the right
\* length and the BAD_REQUEST otherwise, whether or not the email is
\* registered.
C26_RegisterChallengeFrame ==
    [][\A r \in RegSlots :
        RegisterChallengeStep(r) =>
            /\ users' = users
            /\ accounts' = accounts
            /\ sessions' = sessions
            /\ \/ /\ reg'[r].pc = "challenged"
                  /\ reg'[r].response = ChallengeResponse
               \/ /\ reg'[r].pc = "done"
                  /\ reg'[r].response =
                        APIError("BAD_REQUEST", "Invalid registration request")
            /\ \A q \in RegSlots :
                (reg'[q].pc = "challenged" /\ reg'[r].pc = "challenged") =>
                    reg'[q].response = reg'[r].response
      ]_vars

\* Two challenges were answered: one for a registered email, one for an
\* email without a user.
C26_Witness ==
    \E r, q \in RegSlots :
        /\ reg[r].pc = "challenged"
        /\ reg[q].pc = "challenged"
        /\ findUserByEmail(reg[r].email) # NullUser
        /\ findOpaqueAccount(findUserByEmail(reg[r].email).id) # NoAccount
        /\ findUserByEmail(reg[q].email) = NullUser
        /\ reg[r].response = reg[q].response

\* C27: every RegistrationRecord in the account store is one a client
\* submitted to registration-complete, made from a client's password for
\* the email of the account's user under the server's own setup; no record
\* of the decoy generator, and none of its throwaway identifier, password
\* and temporary server setup, is in the store.
C27_DecoyNeverStored ==
    \A i \in Indexes(accounts) :
        LET record == accounts[i].registrationRecord
        IN  /\ record # createDummyRegistrationRecord
            /\ record.pw # DummyPassword
            /\ record.ident # DummyIdentifier
            /\ record.setup # TempServerSetup
            /\ record.pw \in RegistrationPasswords
            /\ record.setup = OPAQUE_SERVER_KEY
            /\ \E u \in UserRows(accounts[i].userId) :
                    users[u].email = record.ident

\* The decoy generator ran for a login challenge while the store held an
\* account.
C27_Witness ==
    /\ accounts # <<>>
    /\ \E f \in LoginFlows :
        /\ login[f].pc = "challenged"
        /\ TicketRecord(f) = createDummyRegistrationRecord

\* The ways open fails before it has a payload: symmetricDecrypt threw, or
\* JSON.parse threw.
Unopened == {"decrypt", "parse"}

\* C28: a login-complete whose envelope fails to decrypt and one whose
\* decrypted text fails to parse end with one and the same error, and
\* neither has a session created for it.
C28_OneInvalidLoginState ==
    \A f, g \in LoginFlows :
        (/\ Completed(f) /\ login[f].opened \in Unopened
         /\ Completed(g) /\ login[g].opened \in Unopened) =>
            /\ login[f].response = login[g].response
            /\ login[f].response.status # "OK"

\* The check open makes on a payload: it carries an issuedAt, and that
\* instant is at most 15 minutes before the opening.
IssuedInTime(data, at) ==
    /\ data.issuedAt # NoIssuedAt
    /\ data.issuedAt + EXPIRY_MS >= at

\* C29: open succeeds only on a payload that carries an issuedAt with
\* issuedAt + 15 minutes >= now; a payload that decrypts and parses and does
\* not pass that check, one without an issuedAt included, is refused with
\* the expiry error.
C29_OpenChecksIssuedAt ==
    (probe.pc = "opened") =>
        /\ probe.opened.outcome = "ok" =>
                IssuedInTime(probe.opened.data, probe.opened.at)
        /\ (/\ probe.opened.outcome \notin Unopened
            /\ ~IssuedInTime(probe.opened.data, probe.opened.at)) =>
                probe.opened.outcome = "expired"

\* The error of a wrong-length blob for a field.
MalformedProtocolMessage(fieldName) ==
    APIError("BAD_REQUEST", "Invalid " \o fieldName)

C31_KeySetOnce ==
    [][/\ (/\ probe'.plugin.requests # probe.plugin.requests
           /\ probe'.plugin.engineCalled) =>
                /\ probe.plugin.serverKey # Undefined
                /\ probe'.plugin.usedKey = probe.plugin.serverKey
       /\ probe.plugin.serverKey # Undefined =>
                probe'.plugin.serverKey = probe.plugin.serverKey
      ]_vars

\* A login-challenge request of the instance for an email without an opaque
\* credential has just been handled.
DecoyRequestHandled ==
    /\ probe'.plugin.requests # probe.plugin.requests
    /\ probe'.plugin.endpoint = "getLoginChallenge"
    /\ \/ probe'.user = NullUser
       \/ findOpaqueAccount(probe'.user.id) = NoAccount

\* C32: when login-challenge finds no opaque credential for the email, the
\* record it passes to startLogin is a fully generated RegistrationRecord,
\* whenever the request arrives; when no decoy can be had the request ends
\* with an error, without a call of startLogin and without a challenge.
C32_DecoyInitialized ==
    [][DecoyRequestHandled =>
        IF probe'.plugin.engineCalled
        THEN /\ probe'.plugin.usedRecord = createDummyRegistrationRecord
             /\ probe'.plugin.usedRecord # NoRecord
             /\ base64UrlDecode(probe'.plugin.usedRecord.chars)
                    >= REGISTRATION_RECORD_MIN_LENGTH
        ELSE /\ probe'.plugin.usedRecord = NoRecord
             /\ probe'.response.status = "INTERNAL_SERVER_ERROR"
             /\ "challenge" \notin probe'.response.fields
      ]_vars

\* A request that came before init had returned got a challenge made with
\* a decoy generated for it.
C32_Witness ==
    /\ probe.pc = "plugin"
    /\ probe.plugin.endpoint = "getLoginChallenge"
    /\ probe.plugin.engineCalled
    /\ probe.plugin.usedRecord = createDummyRegistrationRecord
    /\ probe.response.status = "OK"
    /\ ~probe.plugin.awaitsInit
    /\ ~probe.plugin.initDone

\* What a login-complete of flow f gives when no other flow runs, from the
\* flow's own ticket, password and request only (the clock stands still):
\* the session of the ticket's user for the proof of the right password on
\* an untouched ticket of a stored user, a failure otherwise.
AloneOutcome(f, kind, honest) ==
    IF kind \in {"tampered", "otherKey"}
    THEN UncaughtError("symmetricDecrypt")
    ELSE IF kind = "notJson" THEN UncaughtError("JSON.parse")
    ELSE IF /\ honest
            /\ TicketRecord(f).pw = login[f].password
            /\ TicketRecord(f) # createDummyRegistrationRecord
    THEN LoginSuccess(TicketUser(f).id)
    ELSE AuthenticationFailed

\* C33: in any interleaving of the steps of two login flows, a step of one
\* flow leaves the other flow's challenge, ticket and result as they were,
\* and the result of a login-complete is the one the flow has when it runs
\* alone: a session for its own ticket's user, or its own failure.
C33_FlowsIndependent ==
    [][\A f \in LoginFlows :
        /\ login'[f] # login[f] =>
                \A g \in LoginFlows \ {f} : login'[g] = login[g]
        /\ (\/ login'[f] # login[f] /\ login'[f].opened # ""
            \/ LoginSessionCreated) =>
                \A kind \in EnvelopeKinds, honest \in BOOLEAN :
                    (\/ CompleteLogin(f, kind, honest, "absent")
                     \/ CompleteLoginRejected(f, kind, honest)) =>
                        /\ login'[f].response = AloneOutcome(f, kind, honest)
                        /\ \A g \in LoginFlows \ {f} : login'[g] = login[g]
                        /\ LoginSessionCreated =>
                                sessions'[Len(sessions')].userId
                                    = TicketUser(f).id
      ]_vars

\* Two flows for the same email, both challenged before either completed
\* its login: one ended with a session and the other with the failure.
C33_Witness ==
    /\ Completed("f1") /\ Completed("f2")
    /\ login["f1"].email = login["f2"].email
    /\ login["f1"].response = LoginSuccess(TicketUser("f1").id)
    /\ login["f2"].response = AuthenticationFailed
    /\ login["f1"].won /\ ~login["f2"].won

\* What login-complete gives for the envelope and the proof of the request,
\* whatever its email field holds.
OutcomeOfEnvelope ==
    completeLoginOutcome(probe.envelope, ProbeLoginResult(probe.honest))

\* C34 (as claimed): the email field of a login-complete request has no
\* effect on whether the login succeeds or on the user of the session: the
\* response is the one the envelope and the proof give.
C34_EmailIgnored ==
    (probe.pc = "completed") =>
        /\ probe.response = OutcomeOfEnvelope
        /\ probe.response.status = "OK" =>
            /\ sessions # <<>>
            /\ sessions[Len(sessions)].userId = probe.envelope.data.json.user.id

\* C34 (amended): for every well-formed address in the email field, of the
\* sealed user or of anyone else, the response is the one the envelope and
\* the proof give, and the session of a success is for the user sealed in
\* the envelope.
C34_WellFormedEmailIgnored ==
    (probe.pc = "completed" /\ z_email(probe.email)) =>
        /\ probe.response = OutcomeOfEnvelope
        /\ probe.response.status = "OK" =>
            /\ sessions # <<>>
            /\ sessions[Len(sessions)].userId = probe.envelope.data.json.user.id

\* A login succeeded with another address in the email field than the one
\* of the sealed user.
C34_Witness ==
    /\ probe.pc = "completed"
    /\ z_email(probe.email)
    /\ probe.email # probe.envelope.data.json.user.email
    /\ probe.response.status = "OK"
    /\ sessions # <<>>
    /\ sessions[Len(sessions)].userId = probe.envelope.data.json.user.id

\* A user registered with a password whose registration-complete ended
\* without a session: the user and the opaque account are in the store, no
\* session of completeRegistration is for that user, and no
\* registration-complete is between createUser and createSession.
RegisteredWithoutSession(email, password) ==
    /\ \A r \in RegSlots : reg[r].pc \notin {"userCreated", "accountCreated"}
    /\ findUserByEmail(email) # NullUser
    /\ findOpaqueAccount(findUserByEmail(email).id) # NoAccount
    /\ findOpaqueAccount(findUserByEmail(email).id).registrationRecord.pw
            = password
    /\ \A i \in Indexes(sessions) :
            ~ /\ sessions[i].userId = findUserByEmail(email).id
              /\ sessions[i].by = "completeRegistration"

SessionFailed == APIError("INTERNAL_SERVER_ERROR", "Failed to create session")

\* C35 (as claimed): when createSession fails, registration-complete and
\* login-complete answer INTERNAL_SERVER_ERROR without a token and without a
\* session; after such a registration the user and the credential stay in
\* the store, a later login with the registered password gets its challenge
\* and its session, and a repeated registration-complete for the email is
\* handled as a duplicate.
C35_SessionFailure ==
    [][/\ \A r \in RegSlots :
            /\ (reg[r].pc = "accountCreated" /\ reg'[r].pc = "done"
                /\ sessions' = sessions) =>
                    /\ reg'[r].response = SessionFailed
                    /\ reg'[r].response.fields = {}
                    /\ users' = users /\ accounts' = accounts
                    /\ UserRows(reg[r].userId) # {}
                    /\ AccountRows(reg[r].userId) # {}
            /\ (/\ reg[r].pc = "challenged"
                /\ reg'[r].pc = "lookedUp"
                /\ \E password \in RegistrationPasswords :
                        RegisteredWithoutSession(reg[r].email, password)) =>
                    reg'[r].existingUser
            /\ (/\ reg[r].pc = "lookedUp"
                /\ reg'[r] # reg[r]
                /\ \E password \in RegistrationPasswords :
                        RegisteredWithoutSession(reg[r].email, password)) =>
                    /\ reg'[r].response.status = "CONFLICT"
                    /\ users' = users /\ accounts' = accounts
       /\ \A f \in LoginFlows :
            /\ (login'[f] # login[f]
                /\ login'[f].response.status = "INTERNAL_SERVER_ERROR"
                /\ login'[f].opened = "ok") =>
                    /\ login'[f].response = SessionFailed
                    /\ sessions' = sessions
            /\ (/\ login[f].pc = "found"
                /\ login'[f] # login[f]
                /\ RegisteredWithoutSession(login[f].email,
                                            login[f].password)) =>
                    /\ login'[f].pc = "challenged"
                    /\ login'[f].response.status = "OK"
            /\ (/\ login[f].pc = "challenged"
                /\ RegisteredWithoutSession(login[f].email,
                                            login[f].password)
                /\ TicketRecord(f).pw = login[f].password) =>
                    /\ OutcomeOf(f, "ticket", TRUE).status = "OK"
                    /\ OutcomeOf(f, "ticket", TRUE).userId =
                            findUserByEmail(login[f].email).id
      ]_vars

\* The challenge request of the action came back without a usable
\* challenge, or the client could not finish the login with it.
ChallengeUnusable(c) ==
    \/ c.challengeResponse.error
    \/ ~c.challengeResponse.data
    \/ ~c.challengeResponse.challenge
    \/ /\ c.action = "signIn"
       /\ ~clientFinishLogin(c.password,
                             c.challengeResponse.loginResponse).defined

\* C36: signUp.opaque and signIn.opaque send the complete request only after
\* the challenge request returned a challenge: on an error, on no challenge,
\* or (login) when finishLogin yields nothing, no complete request is sent
\* and an error is returned; otherwise one challenge request is followed by
\* one complete request, which for a login carries the state of that
\* challenge.
C36_CompleteAfterChallenge ==
    LET c == probe.client
    IN  /\ c.challengeCalls <= 1
        /\ c.completeCalls <= c.challengeCalls
        /\ c.pc \in {"awaitComplete", "returned"} =>
            IF ChallengeUnusable(c)
            THEN /\ c.completeCalls = 0
                 /\ c.pc = "returned"
                 /\ c.returned = "error"
            ELSE /\ c.challengeCalls = 1
                 /\ c.completeCalls = 1
                 /\ c.action = "signIn" =>
                        /\ c.sentState = c.challengeResponse.state
                        /\ c.sentProof

C36_Witness ==
    /\ probe.client.pc = "returned"
    /\ probe.client.action = "signIn"
    /\ probe.client.completeCalls = 1
    /\ probe.client.sentState = "state2"
    /\ probe.client.returned = "data"

\* C37: every request ends with a response or an error, given that each
\* engine, cipher and store call returns or fails.  A registration-complete
\* suspended at an await (after findUserByEmail, createUser or
\* createAccount) leads to its end with a response, whatever the other
\* requests do and whether or not any other request is ever sent; so does a
\* login-challenge suspended at findAccounts.  The registration-challenge
\* and the login-complete run from the request to the response in one step.
C37_RequestsEnd ==
    /\ \A r \in RegSlots :
        (reg[r].pc \in {"lookedUp", "userCreated", "accountCreated"})
            ~> (reg[r].pc = "done" /\ reg[r].response # NoResponse)
    /\ (login["f1"].pc = "found")
            ~> (login["f1"].pc \in {"idle", "challenged"}
                /\ login["f1"].response # NoResponse)

\* A repeated registration was refused while the other registration was
\* still suspended, and the login challenge of a found user was answered.
C37_Witness ==
    /\ reg["r2"].pc = "done"
    /\ reg["r2"].response.status = "CONFLICT"
    /\ reg["r1"].pc \in {"lookedUp", "userCreated", "accountCreated"}
    /\ login["f1"].pc = "challenged"
    /\ TicketUser("f1").id \in {users[i].id : i \in Indexes(users)}

====
